---- MODULE Spec2Model ----
\* Verification model of the fastllm API server (example/apiserver/apiserver.cpp):
\* the request pool (WorkQueue::Push / WorkQueue::Start), the life of one
\* connection (accept loop of main, WorkQueue::Deal) and the SSE stream of the
\* chat and completion handlers; and of the streaming tool-call parser and
\* diff tracker of src/chat_handler.cpp.
EXTENDS Integers, Sequences, FiniteSets, TLC

\* ------------------------------------------------------------------ bounds
\* Connections the accept loop handles in one run of the pool model.
NumConnections == 4
\* The configured WorkQueue::maxActivateQueryNumber (max(1, min(256, batch))).
MaxActive == 2
\* Tokens the engine may return for one handle before the model stops it.
MaxTokens == 3
\* sizeof(buff), the read buffer of main(), in units of the request text.
BuffCap == 9

VARIABLES
    \* ---- request pool (struct WorkQueue)
    q,                    \* std::queue<WorkNode*> q: connection ids, front first
    activateQueryNumber,  \* int activateQueryNumber
    totalQueryNumber,     \* int totalQueryNumber
    locker,               \* std::mutex locker: "free" or the holder
    notified,             \* a cv.notify_all() reached the waiting dispatcher
    apc,                  \* accept loop: position in the loop body
    conn,                 \* accept loop: index of the connection being handled
    dpc,                  \* dispatcher thread: position in the loop of Start()
    wpc,                  \* worker threads: position of each request's lambda
    terminated,           \* std::terminate() ran (exception left a thread)
    pushed,               \* history: connection ids in the order Push appended them
    admitted,             \* history: connection ids in the order workers were spawned
    decs,                 \* history: activateQueryNumber-- executed per request
    \* ---- one connection (main accept loop, WorkQueue::Deal)
    cpc,                  \* position of the connection's handling
    size,                 \* int size: bytes read so far (in reads; in units of the request)
    closes,               \* number of close()/CloseSocket() calls on the socket
    kind,                 \* the route the request resolves to
    isStream,             \* bool isStream
    limit,                \* config.output_token_limit
    handle,               \* engine handle: "none", "live", "terminal", "aborted"
    aborts,               \* number of AbortResponse(handleId) calls
    hdrs,                 \* the streaming response header block written, if any
    wire,                 \* write calls issued after the headers, in order
    outputTokens,         \* int outputTokens
    utf8Buffer,           \* std::string utf8Buffer
    decodedAll,           \* the decoded tokens concatenated (std::string output)
    includeUsage,         \* bool includeUsage (stream_options.include_usage)
    hasTools,             \* bool hasTools = HasToolsInRequest(node->config)
    toolCalls,            \* std::vector<ToolCallInfo> toolCalls of the response
    finishReason,         \* std::string finishReason of the response
    \* ---- one StreamingToolCallParser and one StreamingDiffTracker
    impl_,                \* StreamingToolCallParser::impl_: the fields of Impl
    tracker_,             \* StreamingDiffTracker::impl_: last_msg_, first_update_
    ppc,                  \* the caller: "feed", "update", "parsed" or "end"
    output,               \* the model output of the request, whole
    fed,                  \* the chunks passed to feed so far, in order
    results,              \* the StreamingParseResult of each feed / finalize
    diffs,                \* the ChatMsgDiff lists update returned, in order
    resets,               \* history: number of parser.reset() calls
    msgs,                 \* history: the ChatMsg passed to update(const ChatMsg&)
    \* ---- the request of one connection (read loop of main, HttpRequest, Deal)
    buff,                 \* char buff[1024 * 1024]: the shared read buffer, in units
    sent,                 \* the request text the client sends, in units
    request,              \* node->request: the HttpRequest Push initialised
    apiKey,               \* ::config.apiKey
    status,               \* status of the answer written, 0 when none
    answer,               \* the value the answer carries (tokens or content)
    oob,                  \* buff[size] = 0 was written one past the end of buff
    \* ---- one PegParser and one call of parse or parseAll
    call,                 \* the PegParser method called: "parse" or "parseAll"
    root_,                \* PegParser::Impl::root_: the root rule
    input,                \* const std::string& input
    pegpc,                \* position in parse / parseAll / RepeatRule::parse
    pos,                  \* size_t pos of parseAll
    peg_results,          \* the results returned (parseAll: the vector so far)
    frame                 \* RepeatRule::parse of the root: current_pos, count, matched

poolVars == <<q, activateQueryNumber, totalQueryNumber, locker, notified, apc,
              conn, dpc, wpc, terminated, pushed, admitted, decs>>
connVars == <<cpc, size, closes, kind, isStream, limit, handle, aborts, hdrs,
              wire, outputTokens, utf8Buffer, decodedAll, includeUsage, hasTools,
              toolCalls, finishReason>>
parserVars == <<impl_, tracker_, ppc, output, fed, results, diffs, resets, msgs>>
reqVars == <<buff, sent, request, apiKey, status, answer, oob>>
pegVars == <<call, root_, input, pegpc, pos, peg_results, frame>>
vars == <<poolVars, connVars, parserVars, reqVars, pegVars>>

Requests == 1..NumConnections

\* ================================================================== pool
\* State after main() constructed workQueue and called Start(), no client yet.
InitPoolVars ==
    /\ q = <<>>
    /\ activateQueryNumber = 0
    /\ totalQueryNumber = 0
    /\ locker = "free"
    /\ notified = FALSE
    /\ apc = "accept"
    /\ conn = 1
    /\ dpc = "top"
    /\ wpc = [r \in Requests |-> "none"]
    /\ terminated = FALSE
    /\ pushed = <<>>
    /\ admitted = <<>>
    /\ decs = [r \in Requests |-> 0]

\* A connection just accepted: nothing read, socket open, no engine handle.
FreshConnVars(pc) ==
    /\ cpc = pc
    /\ size = 0
    /\ closes = 0
    /\ kind = "none"
    /\ isStream = FALSE
    /\ limit = 0
    /\ handle = "none"
    /\ aborts = 0
    /\ hdrs = <<>>
    /\ wire = <<>>
    /\ outputTokens = 0
    /\ utf8Buffer = <<>>
    /\ decodedAll = <<>>
    /\ includeUsage = TRUE
    /\ hasTools = FALSE
    /\ toolCalls = <<>>
    /\ finishReason = ""

\* The connection variables stay idle while only the pool is modelled.
\* ---- chat_handler: the objects as constructed
\* ToolCall(): empty id, name and arguments, is_complete = false.
NoToolCall == [id |-> <<>>, name |-> "", arguments |-> <<>>, is_complete |-> FALSE]

\* StreamingToolCallParser::Impl after construction (the member initialisers).
NewImpl ==
    [buffer_ |-> <<>>, pending_tool_calls_ |-> <<>>, content_buffer_ |-> <<>>,
     reasoning_buffer_ |-> <<>>, in_tool_call_ |-> FALSE, in_reasoning_ |-> FALSE,
     thinking_forced_open_ |-> FALSE, tool_call_index_ |-> 0,
     detected_format_ |-> "Unknown"]

\* ChatMsg with role = "assistant" and everything else empty.
EmptyMsg ==
    [role |-> "assistant", content |-> <<>>, reasoning_content |-> <<>>,
     tool_calls |-> <<>>]

\* StreamingDiffTracker::Impl after construction.
NewTracker == [last_msg_ |-> EmptyMsg, first_update_ |-> TRUE]

\* A constructed parser and tracker in front of the model output t.
FreshParserVars(pc, t) ==
    /\ impl_ = NewImpl
    /\ tracker_ = NewTracker
    /\ ppc = pc
    /\ output = t
    /\ fed = <<>>
    /\ results = <<>>
    /\ diffs = <<>>
    /\ resets = 0
    /\ msgs = <<>>

\* A connection as accept() returns it, for the request model: the read
\* buffer holds b, the client will send the text t, no request is pushed and
\* nothing is answered.
FreshReqVars(b, t, key) ==
    /\ buff = b
    /\ sent = t
    /\ request = [method |-> "", route |-> "", headers |-> {}, body |-> <<>>]
    /\ apiKey = key
    /\ status = 0
    /\ answer = <<>>
    /\ oob = FALSE

\* No PegParser call is under way.
IdlePegVars ==
    /\ call = "none"
    /\ root_ = <<>>
    /\ input = <<>>
    /\ pegpc = "idle"
    /\ pos = 0
    /\ peg_results = <<>>
    /\ frame = [current_pos |-> 0, count |-> 0, matched |-> <<>>]

InitPool ==
    /\ IdlePegVars
    /\ InitPoolVars /\ FreshConnVars("idle") /\ FreshParserVars("idle", <<>>)
    /\ FreshReqVars([i \in 1..BuffCap |-> <<>>], <<>>, <<>>)

\* ---- accept loop of main()
\* accept() and the read loop ended with size == 0: `continue`, nothing is pushed.
AcceptSkip ==
    /\ ~terminated /\ apc = "accept" /\ conn <= NumConnections
    /\ conn' = conn + 1
    /\ UNCHANGED <<pegVars, reqVars, parserVars, connVars, q, activateQueryNumber, totalQueryNumber, locker, notified, apc,
                   dpc, wpc, terminated, pushed, admitted, decs>>

\* accept() and the read loop ended with size > 0: go on to the backpressure loop.
AcceptRead ==
    /\ ~terminated /\ apc = "accept" /\ conn <= NumConnections
    /\ apc' = "backpressure"
    /\ UNCHANGED <<pegVars, reqVars, parserVars, connVars, q, activateQueryNumber, totalQueryNumber, locker, notified, conn,
                   dpc, wpc, terminated, pushed, admitted, decs>>

\* The accept loop without the wait for room in the queue.
BackpressureOpen_always == TRUE

\* The wait with its comparison off by one: it ends at max_active + 1 waiting.
BackpressureOpen_offByOne == Len(q) <= MaxActive + 1

\* while (workQueue.q.size() > workQueue.maxActivateQueryNumber) MySleep(0);
BackpressureOpen == Len(q) <= MaxActive

AcceptBackpressure ==
    /\ ~terminated /\ apc = "backpressure"
    /\ BackpressureOpen
    /\ apc' = "push"
    /\ UNCHANGED <<pegVars, reqVars, parserVars, connVars, q, activateQueryNumber, totalQueryNumber, locker, notified, conn,
                   dpc, wpc, terminated, pushed, admitted, decs>>

\* Push: locker.lock(); q.push(new WorkNode()); q.back()->Init(..); locker.unlock();
PushAppend ==
    /\ ~terminated /\ apc = "push"
    /\ locker = "free"
    /\ q' = Append(q, conn)
    /\ pushed' = Append(pushed, conn)
    /\ apc' = "notify"
    /\ UNCHANGED <<pegVars, reqVars, parserVars, connVars, activateQueryNumber, totalQueryNumber, locker, notified, conn,
                   dpc, wpc, terminated, admitted, decs>>

\* Push without the notify_all().
PushNotify_lost ==
    /\ ~terminated /\ apc = "notify"
    /\ apc' = "accept"
    /\ conn' = conn + 1
    /\ UNCHANGED <<pegVars, reqVars, parserVars, connVars, q, activateQueryNumber, totalQueryNumber, locker, notified,
                   dpc, wpc, terminated, pushed, admitted, decs>>

\* Push: cv.notify_all(); it reaches the dispatcher only if it is waiting.
PushNotify ==
    /\ ~terminated /\ apc = "notify"
    /\ notified' = (notified \/ dpc = "wait")
    /\ apc' = "accept"
    /\ conn' = conn + 1
    /\ UNCHANGED <<pegVars, reqVars, parserVars, connVars, q, activateQueryNumber, totalQueryNumber, locker, dpc, wpc,
                   terminated, pushed, admitted, decs>>

\* ---- dispatcher thread of Start()
\* std::unique_lock<std::mutex> lock(ts->locker);
DispLock ==
    /\ ~terminated /\ dpc = "top"
    /\ locker = "free"
    /\ locker' = "dispatcher"
    /\ dpc' = "check"
    /\ UNCHANGED <<pegVars, reqVars, parserVars, connVars, q, activateQueryNumber, totalQueryNumber, notified, apc, conn,
                   wpc, terminated, pushed, admitted, decs>>

\* if (activateQueryNumber >= maxActivateQueryNumber) { MySleep(0); continue; }
DispFull ==
    /\ ~terminated /\ dpc = "check"
    /\ activateQueryNumber >= MaxActive
    /\ locker' = "free"
    /\ dpc' = "top"
    /\ UNCHANGED <<pegVars, reqVars, parserVars, connVars, q, activateQueryNumber, totalQueryNumber, notified, apc, conn,
                   wpc, terminated, pushed, admitted, decs>>

\* if (q.empty()) cv.wait(lock): releases the mutex and blocks.
DispWait ==
    /\ ~terminated /\ dpc = "check"
    /\ activateQueryNumber < MaxActive
    /\ q = <<>>
    /\ locker' = "free"
    /\ notified' = FALSE
    /\ dpc' = "wait"
    /\ UNCHANGED <<pegVars, reqVars, parserVars, connVars, q, activateQueryNumber, totalQueryNumber, apc, conn, wpc,
                   terminated, pushed, admitted, decs>>

\* q not empty: straight to the admission loop, mutex still held.
DispNoWait ==
    /\ ~terminated /\ dpc = "check"
    /\ activateQueryNumber < MaxActive
    /\ q # <<>>
    /\ dpc' = "loop"
    /\ UNCHANGED <<pegVars, reqVars, parserVars, connVars, q, activateQueryNumber, totalQueryNumber, locker, notified, apc,
                   conn, wpc, terminated, pushed, admitted, decs>>

\* cv.wait returns after a notify_all: the mutex is re-acquired.
DispWake ==
    /\ ~terminated /\ dpc = "wait"
    /\ notified
    /\ locker = "free"
    /\ locker' = "dispatcher"
    /\ notified' = FALSE
    /\ dpc' = "loop"
    /\ UNCHANGED <<pegVars, reqVars, parserVars, connVars, q, activateQueryNumber, totalQueryNumber, apc, conn, wpc,
                   terminated, pushed, admitted, decs>>

\* cv.wait returns spuriously (the code does not re-check a predicate in a loop).
DispSpurious ==
    /\ ~terminated /\ dpc = "wait"
    /\ ~notified
    /\ locker = "free"
    /\ locker' = "dispatcher"
    /\ dpc' = "loop"
    /\ UNCHANGED <<pegVars, reqVars, parserVars, connVars, q, activateQueryNumber, totalQueryNumber, notified, apc, conn,
                   wpc, terminated, pushed, admitted, decs>>

\* while (activateQueryNumber < maxActivateQueryNumber && !q.empty())
CanAdmit_le == activateQueryNumber <= MaxActive /\ q # <<>>
CanAdmit == activateQueryNumber < MaxActive /\ q # <<>>

\* WorkNode *now = ts->q.front();
QFront_back(s) == s[Len(s)]
QFront(s) == Head(s)

\* One iteration of the admission loop: front, pop, ++, ++, new std::thread.
DispAdmit ==
    /\ ~terminated /\ dpc = "loop"
    /\ CanAdmit
    /\ LET now == QFront(q) IN
          /\ q' = Tail(q)
          /\ activateQueryNumber' = activateQueryNumber + 1
          /\ totalQueryNumber' = totalQueryNumber + 1
          /\ wpc' = [wpc EXCEPT ![now] = "deal"]
          /\ admitted' = Append(admitted, now)
    /\ UNCHANGED <<pegVars, reqVars, parserVars, connVars, locker, notified, apc, conn, dpc, terminated, pushed, decs>>

\* The admission loop's condition is false: the unique_lock goes out of scope.
DispLoopEnd ==
    /\ ~terminated /\ dpc = "loop"
    /\ ~CanAdmit
    /\ locker' = "free"
    /\ dpc' = "top"
    /\ UNCHANGED <<pegVars, reqVars, parserVars, connVars, q, activateQueryNumber, totalQueryNumber, notified, apc, conn,
                   wpc, terminated, pushed, admitted, decs>>

\* ---- worker thread lambda of Start()
\* ts->Deal(now) returned (every return of Deal: response, error, disconnect).
DealReturn(r) ==
    /\ ~terminated /\ wpc[r] = "deal"
    /\ wpc' = [wpc EXCEPT ![r] = "returned"]
    /\ UNCHANGED <<pegVars, reqVars, parserVars, connVars, q, activateQueryNumber, totalQueryNumber, locker, notified, apc,
                   conn, dpc, terminated, pushed, admitted, decs>>

\* An exception leaves Deal: the lambda has no try/catch and no guard object, so
\* it leaves the thread function and std::terminate() ends the process.
DealThrow(r) ==
    /\ ~terminated /\ wpc[r] = "deal"
    /\ wpc' = [wpc EXCEPT ![r] = "threw"]
    /\ terminated' = TRUE
    /\ UNCHANGED <<pegVars, reqVars, parserVars, connVars, q, activateQueryNumber, totalQueryNumber, locker, notified, apc,
                   conn, dpc, pushed, admitted, decs>>

\* The decrement without locker.lock(): it does not wait for the mutex.
WorkerDec_unlocked(r) ==
    /\ ~terminated /\ wpc[r] = "returned"
    /\ activateQueryNumber' = activateQueryNumber - 1
    /\ decs' = [decs EXCEPT ![r] = @ + 1]
    /\ wpc' = [wpc EXCEPT ![r] = "done"]
    /\ UNCHANGED <<pegVars, reqVars, parserVars, connVars, q, totalQueryNumber, locker, notified, apc, conn, dpc,
                   terminated, pushed, admitted>>

\* ts->locker.lock(); ts->activateQueryNumber--; ts->locker.unlock();
WorkerDec(r) ==
    /\ ~terminated /\ wpc[r] = "returned"
    /\ locker = "free"
    /\ activateQueryNumber' = activateQueryNumber - 1
    /\ decs' = [decs EXCEPT ![r] = @ + 1]
    /\ wpc' = [wpc EXCEPT ![r] = "done"]
    /\ UNCHANGED <<pegVars, reqVars, parserVars, connVars, q, totalQueryNumber, locker, notified, apc, conn, dpc,
                   terminated, pushed, admitted>>

NextPool ==
    \/ AcceptSkip \/ AcceptRead \/ AcceptBackpressure \/ PushAppend \/ PushNotify
    \/ DispLock \/ DispFull \/ DispWait \/ DispNoWait
    \/ DispWake \/ DispSpurious \/ DispAdmit \/ DispLoopEnd
    \/ \E r \in Requests : DealReturn(r)
    \/ \E r \in Requests : DealThrow(r)
    \/ \E r \in Requests : WorkerDec(r)

SpecPool == InitPool /\ [][NextPool]_vars

\* Scheduling assumed for liveness: every thread that can run keeps running
\* (weak fairness per step), a thread blocked in locker.lock() gets the mutex
\* if it is free again and again (strong fairness: the dispatcher re-takes the
\* mutex in a loop while the pool is full), and a handler that can return does.
\* cv.wait is not assumed to return spuriously, and no client is assumed to connect.
FairPool ==
    /\ WF_vars(PushNotify)
    /\ SF_vars(PushAppend)
    /\ WF_vars(DispLock) /\ WF_vars(DispFull) /\ WF_vars(DispWait)
    /\ WF_vars(DispNoWait) /\ WF_vars(DispWake) /\ WF_vars(DispAdmit)
    /\ WF_vars(DispLoopEnd)
    /\ \A r \in Requests : WF_vars(DealReturn(r)) /\ SF_vars(WorkerDec(r))

LiveSpecPool == InitPool /\ [][NextPool]_vars /\ FairPool

Range(s) == {s[i] : i \in 1..Len(s)}

\* ============================================================ UTF-8 helpers
\* (c & 0xC0) == 0x80
IsContinuation(c) == c \div 64 = 2

\* The sequence length a start byte announces; 0 for an invalid start byte.
ExpectedLen(c) ==
    IF c < 128 THEN 1
    ELSE IF c \div 32 = 6 THEN 2
    ELSE IF c \div 16 = 14 THEN 3
    ELSE IF c \div 8 = 30 THEN 4
    ELSE 0

\* The loop of GetIncompleteUtf8Bytes: i-th byte from the end, i = 1..4.
RECURSIVE IncompleteFrom(_, _)
IncompleteFrom(s, i) ==
    IF i > 4 \/ i > Len(s) THEN 0
    ELSE LET c == s[Len(s) - i + 1] IN
         IF IsContinuation(c) THEN IncompleteFrom(s, i + 1)
         ELSE IF ExpectedLen(c) = 0 THEN 0
         ELSE IF i < ExpectedLen(c) THEN i
         ELSE 0

\* The look backwards reduced to the last byte.
GetIncompleteUtf8Bytes_lastByte(s) ==
    IF s = <<>> THEN 0 ELSE IF ExpectedLen(s[Len(s)]) > 1 THEN 1 ELSE 0

GetIncompleteUtf8Bytes(s) == IF s = <<>> THEN 0 ELSE IncompleteFrom(s, 1)

\* No split: the whole text is complete.
SplitUtf8_whole(s) == <<s, <<>>>>

\* <<complete, incomplete>>
SplitUtf8(s) ==
    LET incomplete == GetIncompleteUtf8Bytes(s) IN
    IF incomplete = 0 THEN <<s, <<>>>>
    ELSE <<SubSeq(s, 1, Len(s) - incomplete),
           SubSeq(s, Len(s) - incomplete + 1, Len(s))>>

\* The loop of ValidateUtf8 from 0-based position i (len == i at the loop head).
RECURSIVE ValidateFrom(_, _)
ValidateFrom(text, i) ==
    IF i >= Len(text) THEN i
    ELSE LET charLen == ExpectedLen(text[i + 1]) IN
         IF charLen = 0 THEN i
         ELSE IF i + charLen > Len(text) THEN i
         ELSE IF \E j \in 1..(charLen - 1) : ~IsContinuation(text[i + j + 1]) THEN i
         ELSE ValidateFrom(text, i + charLen)

ValidateUtf8(text) == ValidateFrom(text, 0)

\* No truncation.
TruncateToValidUtf8_all(s) == s

TruncateToValidUtf8(s) == SubSeq(s, 1, ValidateUtf8(s))

\* ============================================================== SSE framing
\* Texts are sequences of byte values.
\* sprintf("%zx", n): lower-case hexadecimal digits of n.
HexDigit(d) == IF d < 10 THEN 48 + d ELSE 87 + d

RECURSIVE Hex(_)
Hex(n) == IF n < 16 THEN <<HexDigit(n)>> ELSE Hex(n \div 16) \o <<HexDigit(n % 16)>>

CRLF == <<13, 10>>

\* SendChunk: "<hex length>\r\n" payload "\r\n".
SendChunk(payload) == Hex(Len(payload)) \o CRLF \o payload \o CRLF

\* SendSSEHeaders: the header block of the (unused) chunked helper.
SendSSEHeaders ==
    {"Content-Type:text/event-stream", "Cache-Control:no-cache",
     "Connection:keep-alive", "server:fastllm api server",
     "Access-Control-Allow-Origin: *", "Transfer-Encoding: chunked"}

\* The header block the chat and completion handlers write for a stream.
StreamHeaders ==
    {"Content-Type: text/event-stream", "Cache-Control: no-cache",
     "Connection: keep-alive", "server: fastllm api server",
     "Access-Control-Allow-Origin: *"}

\* "data: " + CompactJson(obj.dump()) + "\n\n"
SseData(json) == <<100, 97, 116, 97, 58, 32>> \o json \o <<10, 10>>

\* "data: [DONE]\n\n"
DonePayload == <<100, 97, 116, 97, 58, 32, 91, 68, 79, 78, 69, 93, 10, 10>>

\* The compact JSON text of the chunks, reduced to what tells them apart:
\* {r} role delta, {c<text>} content delta or text, {f<reason>[u]} final chunk
\* with its finish_reason (s, l or t) and, if present, the usage object.
RoleJson == <<123, 114, 125>>
ContentJson(text) == <<123, 99>> \o text \o <<125>>
ReasonByte(reason) ==
    IF reason = "stop" THEN 115 ELSE IF reason = "length" THEN 108 ELSE 116
FinalJson(reason, usage) ==
    <<123, 102, ReasonByte(reason)>> \o (IF usage THEN <<117>> ELSE <<>>) \o <<125>>

\* What the stream handlers hand to the socket for one event:
\* WriteAll(node->client, cur), the payload as it is.
StreamWrite_chunked(payload) == SendChunk(payload)
StreamWrite(payload) == payload

\* One write call on the socket after the headers.
Event(e, payload, ok, text, reason, usage) ==
    [ev |-> e, bytes |-> StreamWrite(payload), ok |-> ok,
     text |-> text, reason |-> reason, usage |-> usage]

\* partResult of the terminal token: empty delta, finish_reason, usage if asked.
ChatFinalChunk_usage(reason, ok) ==
    Event("final", SseData(FinalJson(reason, TRUE)), ok, <<>>, reason, TRUE)
ChatFinalChunk(reason, ok) ==
    Event("final", SseData(FinalJson(reason, includeUsage')), ok, <<>>, reason,
          includeUsage')

\* ============================================================ tool calls
\* Index of the '}' that closes the first '{' (brace counting), 0 if none.
RECURSIVE JsonEndFrom(_, _, _)
JsonEndFrom(out, i, depth) ==
    IF i > Len(out) THEN 0
    ELSE IF out[i] = 123 THEN JsonEndFrom(out, i + 1, depth + 1)
    ELSE IF out[i] = 125 THEN
         (IF depth - 1 = 0 THEN i ELSE JsonEndFrom(out, i + 1, depth - 1))
    ELSE JsonEndFrom(out, i + 1, depth)

\* output.find('{'): index of the first '{', 0 if none.
RECURSIVE FindBrace(_, _)
FindBrace(out, i) ==
    IF i > Len(out) THEN 0 ELSE IF out[i] = 123 THEN i ELSE FindBrace(out, i + 1)

\* ParseToolCalls: the first balanced {...} of the output, parsed as JSON. The
\* byte n stands for the member "name":"f": {n} is a function call, {} parses
\* but is no call, any other text between the braces is a JSON parse error.
ParseToolCalls(out) ==
    LET jsonStart == FindBrace(out, 1)
        jsonEnd == IF jsonStart = 0 THEN 0 ELSE JsonEndFrom(out, jsonStart, 0)
    IN IF jsonStart = 0 \/ jsonEnd = 0 THEN <<>>
       ELSE IF SubSeq(out, jsonStart, jsonEnd) = <<123, 110, 125>> THEN <<"f">>
       ELSE <<>>

\* The answer of the non-streaming chat handler: "HTTP/1.1 200 OK", headers,
\* then result.dump(), reduced to the status 200 and {m<reason><n>}: the
\* finish_reason and usage.completion_tokens (one decimal digit).
ChatResponse(reason, n) ==
    <<50, 48, 48>> \o <<123, 109, ReasonByte(reason), 48 + n, 125>>

\* The comparison with the limit made strict.
ChatFinishReason_strict(n, lim, calls) ==
    LET reached == IF n > lim THEN "length" ELSE "stop"
    IN IF calls # <<>> THEN "tool_calls" ELSE reached

\* finishReason of the non-streaming chat response.
ChatFinishReason_lengthFirst(n, lim, calls) ==
    IF n >= lim THEN "length" ELSE IF calls # <<>> THEN "tool_calls" ELSE "stop"
ChatFinishReason(n, lim, calls) ==
    LET reached == IF n >= lim THEN "length" ELSE "stop"
    IN IF calls # <<>> THEN "tool_calls" ELSE reached

\* finishReason of the streaming handlers and of /v1/completions.
LengthOrStop(n, lim) == IF n >= lim THEN "length" ELSE "stop"

\* ========================================================== one connection
\* Reads the accept loop makes at most for one connection in the model.
MaxReads == 2

\* What the detokenizer may return for one token: nothing, "a", the first two
\* bytes of a three-byte character, its last byte, "{n", "}" and "<", the
\* byte that stands for the marker that opens a thinking block, and the first
\* three bytes of a four-byte character.
Vocab == {<<>>, <<97>>, <<228, 184>>, <<173>>, <<123, 110>>, <<125>>, <<60>>,
          <<240, 159, 152>>}

\* output_token_limit values; MaxTokens + 1 is a limit the run never reaches.
Limits == 1..(MaxTokens + 1)

\* WriteAll's result: the peer (or a closed descriptor) decides.
WriteResults == BOOLEAN

InitConn ==
    /\ IdlePegVars
    /\ InitPoolVars /\ FreshConnVars("read") /\ FreshParserVars("idle", <<>>)
    /\ FreshReqVars([i \in 1..BuffCap |-> <<>>], <<>>, <<>>)

\* ---- accept loop of main(), one connection
\* read() returned cur > 0 and httpChecker.IsValid(buff, size) is false.
ReadMore ==
    /\ cpc = "read" /\ size + 1 < MaxReads
    /\ size' = size + 1
    /\ UNCHANGED <<pegVars, reqVars, parserVars, poolVars, cpc, closes, kind, isStream, limit, handle, aborts,
                   hdrs, wire, outputTokens, utf8Buffer, decodedAll, includeUsage,
                   hasTools, toolCalls, finishReason>>

\* read() returned cur > 0 and the request is complete: break, then Push.
ReadComplete ==
    /\ cpc = "read" /\ size < MaxReads
    /\ size' = size + 1
    /\ cpc' = "queued"
    /\ UNCHANGED <<pegVars, reqVars, parserVars, poolVars, closes, kind, isStream, limit, handle, aborts,
                   hdrs, wire, outputTokens, utf8Buffer, decodedAll, includeUsage,
                   hasTools, toolCalls, finishReason>>

\* read() returned cur <= 0 (peer closed, error, or buffer full): the accept
\* loop closes the socket and breaks; size == 0 skips the connection, any
\* other size goes on to buff[size] = 0 and Push.
ReadEnd ==
    /\ cpc = "read"
    /\ closes' = closes + 1
    /\ cpc' = IF size = 0 THEN "skipped" ELSE "queued"
    /\ UNCHANGED <<pegVars, reqVars, parserVars, poolVars, size, kind, isStream, limit, handle, aborts,
                   hdrs, wire, outputTokens, utf8Buffer, decodedAll, includeUsage,
                   hasTools, toolCalls, finishReason>>

\* ---- WorkQueue::Deal
\* Routes answered with one message and CloseSocket: /health, /version, the
\* 401 of the API key check, /v1/cancel, /v1/active_conversations, /tokenize,
\* /detokenize, /slots, /props, /metrics, /v1/models, /v1/embeddings, /v1/rerank
\* (success and error answers alike); the write's result is ignored.
SimpleRoutes == {"health", "version", "unauthorized", "json"}

DealSimple(k) ==
    /\ cpc = "queued"
    /\ kind' = k
    /\ \E ok \in WriteResults :
          wire' = Append(wire, Event("response", <<>>, ok, <<>>, "", FALSE))
    /\ closes' = closes + 1
    /\ cpc' = "closed"
    /\ UNCHANGED <<pegVars, reqVars, parserVars, poolVars, size, isStream, limit, handle, aborts,
                   hdrs, outputTokens, utf8Buffer, decodedAll, includeUsage,
                   hasTools, toolCalls, finishReason>>

\* No route matched: CloseSocket(node->client); return;
DealUnknown ==
    /\ cpc = "queued"
    /\ kind' = "unknown"
    /\ closes' = closes + 1
    /\ cpc' = "closed"
    /\ UNCHANGED <<pegVars, reqVars, parserVars, poolVars, size, isStream, limit, handle, aborts,
                   hdrs, wire, outputTokens, utf8Buffer, decodedAll, includeUsage,
                   hasTools, toolCalls, finishReason>>

\* The routes that drive the engine.
EngineRoutes == {"chat", "completions", "generate"}

\* Validation failed (missing prompt/messages, unknown model, parameter out of
\* range, body not JSON): error answer, CloseSocket, return - before the launch.
DealReject(k) ==
    /\ cpc = "queued"
    /\ kind' = k
    /\ \E ok \in WriteResults :
          wire' = Append(wire, Event("error", <<>>, ok, <<>>, "", FALSE))
    /\ closes' = closes + 1
    /\ cpc' = "closed"
    /\ UNCHANGED <<pegVars, reqVars, parserVars, poolVars, size, isStream, limit, handle, aborts,
                   hdrs, outputTokens, utf8Buffer, decodedAll, includeUsage,
                   hasTools, toolCalls, finishReason>>

\* int handleId = model->LaunchResponseTokens(tokens, config); /generate never
\* reads "stream".
DealLaunch(k) ==
    /\ cpc = "queued"
    /\ kind' = k
    /\ handle' = "live"
    /\ \E lim \in Limits : limit' = lim
    /\ \E st \in (IF k = "generate" THEN {FALSE} ELSE BOOLEAN) :
          /\ isStream' = st
          /\ cpc' = IF k = "generate" THEN "generate"
                    ELSE IF st THEN "headers" ELSE "collect"
    /\ UNCHANGED <<pegVars, reqVars, parserVars, poolVars, size, closes, aborts, hdrs, wire, outputTokens,
                   utf8Buffer, decodedAll, includeUsage, hasTools, toolCalls,
                   finishReason>>

\* The failure branch without the AbortResponse call.
AbortAndClose_noAbort ==
    /\ closes' = closes + 1
    /\ cpc' = "closed"
    /\ UNCHANGED <<handle, aborts>>

\* if (!WriteAll(...)) { model->AbortResponse(handleId); CloseSocket(..); return; }
AbortAndClose ==
    /\ handle' = "aborted"
    /\ aborts' = aborts + 1
    /\ closes' = closes + 1
    /\ cpc' = "closed"

\* The write with its result ignored, as in (void)WriteAll(..).
CheckedWrite_ignored(e, payload, text, next) ==
    \E ok \in WriteResults :
        /\ wire' = Append(wire, Event(e, payload, ok, text, "", FALSE))
        /\ cpc' = next
        /\ UNCHANGED <<handle, aborts, closes>>

\* A checked write of one event: on success go on at `next`.
CheckedWrite(e, payload, text, next) ==
    \E ok \in WriteResults :
        /\ wire' = Append(wire, Event(e, payload, ok, text, "", FALSE))
        /\ IF ok THEN cpc' = next /\ UNCHANGED <<handle, aborts, closes>>
           ELSE AbortAndClose

\* The stream's header block; a failed write aborts the handle.
WriteStreamHeaders ==
    /\ cpc = "headers"
    /\ \E ok \in WriteResults :
          /\ hdrs' = <<[lines |-> StreamHeaders, ok |-> ok]>>
          /\ IF ok THEN /\ cpc' = IF kind = "chat" THEN "role" ELSE "echo"
                        /\ UNCHANGED <<handle, aborts, closes>>
             ELSE AbortAndClose
    /\ UNCHANGED <<pegVars, reqVars, parserVars, poolVars, size, kind, isStream, limit, wire, outputTokens,
                   utf8Buffer, decodedAll, includeUsage, hasTools, toolCalls,
                   finishReason>>

\* chat: the role-opening chunk (delta.role = assistant, finish_reason null).
WriteRole ==
    /\ cpc = "role"
    /\ CheckedWrite("role", SseData(RoleJson), <<>>, "loop")
    /\ UNCHANGED <<pegVars, reqVars, parserVars, poolVars, size, kind, isStream, limit, hdrs, outputTokens,
                   utf8Buffer, decodedAll, includeUsage, hasTools, toolCalls,
                   finishReason>>

\* completions: if (echo && !promptText.empty()) the prompt is sent first.
WriteEcho ==
    /\ cpc = "echo"
    /\ CheckedWrite("echo", SseData(ContentJson(<<112>>)), <<112>>, "loop")
    /\ UNCHANGED <<pegVars, reqVars, parserVars, poolVars, size, kind, isStream, limit, hdrs, outputTokens,
                   utf8Buffer, decodedAll, includeUsage, hasTools, toolCalls,
                   finishReason>>

NoEcho ==
    /\ cpc = "echo"
    /\ cpc' = "loop"
    /\ UNCHANGED <<pegVars, reqVars, parserVars, poolVars, size, closes, kind, isStream, limit, handle, aborts,
                   hdrs, wire, outputTokens, utf8Buffer, decodedAll, includeUsage,
                   hasTools, toolCalls, finishReason>>

\* The engine returns a token only below the output limit it was launched with.
EngineHasToken == handle = "live" /\ outputTokens < limit /\ outputTokens < MaxTokens

\* chat stream, FetchResponseTokens returned a token: count it, decode it, join
\* it to utf8Buffer, keep the incomplete tail, send the complete part if any.
ChatStreamToken ==
    /\ cpc = "loop" /\ kind = "chat" /\ EngineHasToken
    /\ outputTokens' = outputTokens + 1
    /\ \E decoded \in Vocab :
          /\ decodedAll' = decodedAll \o decoded
          /\ IF decoded = <<>>
             THEN UNCHANGED <<utf8Buffer, wire, cpc, handle, aborts, closes>>
             ELSE LET split == SplitUtf8(utf8Buffer \o decoded) IN
                  /\ utf8Buffer' = split[2]
                  /\ IF split[1] = <<>>
                     THEN UNCHANGED <<wire, cpc, handle, aborts, closes>>
                     ELSE CheckedWrite("content", SseData(ContentJson(split[1])),
                                       split[1], "loop")
    /\ UNCHANGED <<pegVars, reqVars, parserVars, poolVars, size, kind, isStream, limit, hdrs, includeUsage,
                   hasTools, toolCalls, finishReason>>

\* chat stream, FetchResponseTokens returned -1: flush the valid prefix of
\* utf8Buffer, send the final chunk, break; the writes' results are ignored.
ChatStreamTerminal ==
    /\ cpc = "loop" /\ kind = "chat" /\ handle = "live"
    /\ handle' = "terminal"
    /\ \E inc \in BOOLEAN : includeUsage' = inc
    /\ finishReason' = LengthOrStop(outputTokens, limit)
    /\ utf8Buffer' = <<>>
    /\ LET validContent == TruncateToValidUtf8(utf8Buffer)
           flush(ok) == IF utf8Buffer # <<>> /\ validContent # <<>>
                        THEN <<Event("content", SseData(ContentJson(validContent)),
                                     ok, validContent, "", FALSE)>>
                        ELSE <<>>
       IN \E ok1, ok2 \in WriteResults :
             wire' = wire \o flush(ok1) \o <<ChatFinalChunk(finishReason', ok2)>>
    /\ cpc' = "done"
    /\ UNCHANGED <<pegVars, reqVars, parserVars, poolVars, size, closes, kind, isStream, limit, aborts, hdrs,
                   outputTokens, decodedAll, hasTools, toolCalls>>

\* completions stream, a token: its text is sent as decoded.
CompletionStreamToken ==
    /\ cpc = "loop" /\ kind = "completions" /\ EngineHasToken
    /\ outputTokens' = outputTokens + 1
    /\ \E now \in Vocab :
          /\ decodedAll' = decodedAll \o now
          /\ CheckedWrite("content", SseData(ContentJson(now)), now, "loop")
    /\ UNCHANGED <<pegVars, reqVars, parserVars, poolVars, size, kind, isStream, limit, hdrs, utf8Buffer,
                   includeUsage, hasTools, toolCalls, finishReason>>

\* completions stream, -1: the end chunk (text "", finish_reason, no usage).
CompletionStreamTerminal ==
    /\ cpc = "loop" /\ kind = "completions" /\ handle = "live"
    /\ handle' = "terminal"
    /\ finishReason' = LengthOrStop(outputTokens, limit)
    /\ \E ok \in WriteResults :
          wire' = Append(wire, Event("final", SseData(FinalJson(finishReason', FALSE)),
                                     ok, <<>>, finishReason', FALSE))
    /\ cpc' = "done"
    /\ UNCHANGED <<pegVars, reqVars, parserVars, poolVars, size, closes, kind, isStream, limit, aborts, hdrs,
                   outputTokens, utf8Buffer, decodedAll, includeUsage, hasTools,
                   toolCalls>>

\* After the loop: "data: [DONE]\n\n", result ignored, then CloseSocket.
WriteDone ==
    /\ cpc = "done"
    /\ \E ok \in WriteResults :
          wire' = Append(wire, Event("done", DonePayload, ok, <<>>, "", FALSE))
    /\ closes' = closes + 1
    /\ cpc' = "closed"
    /\ UNCHANGED <<pegVars, reqVars, parserVars, poolVars, size, kind, isStream, limit, handle, aborts, hdrs,
                   outputTokens, utf8Buffer, decodedAll, includeUsage, hasTools,
                   toolCalls, finishReason>>

\* Non-streaming chat and completions, a token: output += Decode(..).
CollectToken ==
    /\ cpc = "collect" /\ EngineHasToken
    /\ outputTokens' = outputTokens + 1
    /\ \E decoded \in Vocab : decodedAll' = decodedAll \o decoded
    /\ UNCHANGED <<pegVars, reqVars, parserVars, poolVars, cpc, size, closes, kind, isStream, limit, handle,
                   aborts, hdrs, wire, utf8Buffer, includeUsage, hasTools,
                   toolCalls, finishReason>>

\* Non-streaming chat, -1: finish reason, tool calls, the answer, CloseSocket.
ChatCollectTerminal ==
    /\ cpc = "collect" /\ kind = "chat" /\ handle = "live"
    /\ handle' = "terminal"
    /\ \E tools \in BOOLEAN :
          /\ hasTools' = tools
          /\ toolCalls' = IF tools THEN ParseToolCalls(decodedAll) ELSE <<>>
    /\ finishReason' = ChatFinishReason(outputTokens, limit, toolCalls')
    /\ \E ok \in WriteResults :
          wire' = Append(wire, Event("response",
                                     ChatResponse(finishReason', outputTokens), ok,
                                     IF toolCalls' # <<>> THEN <<>> ELSE decodedAll,
                                     finishReason', TRUE))
    /\ closes' = closes + 1
    /\ cpc' = "closed"
    /\ UNCHANGED <<pegVars, reqVars, parserVars, poolVars, size, kind, isStream, limit, aborts, hdrs,
                   outputTokens, utf8Buffer, decodedAll, includeUsage>>

\* Non-streaming completions, -1: finish reason, SendJson(200), CloseSocket.
CompletionCollectTerminal ==
    /\ cpc = "collect" /\ kind = "completions" /\ handle = "live"
    /\ handle' = "terminal"
    /\ finishReason' = LengthOrStop(outputTokens, limit)
    /\ \E ok \in WriteResults :
          wire' = Append(wire, Event("response", <<>>, ok, decodedAll,
                                     finishReason', TRUE))
    /\ closes' = closes + 1
    /\ cpc' = "closed"
    /\ UNCHANGED <<pegVars, reqVars, parserVars, poolVars, size, kind, isStream, limit, aborts, hdrs,
                   outputTokens, utf8Buffer, decodedAll, includeUsage, hasTools,
                   toolCalls>>

\* /generate, a token: the header and the whole output so far are written again.
GenerateToken ==
    /\ cpc = "generate" /\ EngineHasToken
    /\ outputTokens' = outputTokens + 1
    /\ \E decoded \in Vocab :
          /\ decodedAll' = decodedAll \o decoded
          /\ CheckedWrite("generate", <<>>, decodedAll', "generate")
    /\ UNCHANGED <<pegVars, reqVars, parserVars, poolVars, size, kind, isStream, limit, hdrs, utf8Buffer,
                   includeUsage, hasTools, toolCalls, finishReason>>

\* /generate, -1: the message once more, CloseSocket.
GenerateTerminal ==
    /\ cpc = "generate" /\ handle = "live"
    /\ handle' = "terminal"
    /\ \E ok \in WriteResults :
          wire' = Append(wire, Event("generate", <<>>, ok, decodedAll, "", FALSE))
    /\ closes' = closes + 1
    /\ cpc' = "closed"
    /\ UNCHANGED <<pegVars, reqVars, parserVars, poolVars, size, kind, isStream, limit, aborts, hdrs,
                   outputTokens, utf8Buffer, decodedAll, includeUsage, hasTools,
                   toolCalls, finishReason>>

NextConn ==
    \/ ReadMore \/ ReadComplete \/ ReadEnd
    \/ \E k \in SimpleRoutes : DealSimple(k)
    \/ DealUnknown
    \/ \E k \in EngineRoutes : DealReject(k)
    \/ \E k \in EngineRoutes : DealLaunch(k)
    \/ WriteStreamHeaders \/ WriteRole \/ WriteEcho \/ NoEcho
    \/ ChatStreamToken \/ ChatStreamTerminal
    \/ CompletionStreamToken \/ CompletionStreamTerminal
    \/ WriteDone
    \/ CollectToken \/ ChatCollectTerminal \/ CompletionCollectTerminal
    \/ GenerateToken \/ GenerateTerminal

SpecConn == InitConn /\ [][NextConn]_vars

\* ======================================================== chat_handler.cpp
\* Texts are sequences of characters (strings of length one), plus three
\* atoms that stand for whole JSON members, written as the member's text.
\* "|" stands for the full-width bar and "_" for the low block of the
\* DeepSeek markers, "^" for the backquote of the JSON-block markers.
NameMember == "\"name\":\"f\""
ArgsMember == ",\"arguments\":\"x\""
IdMember == ",\"id\":\"c\""
\* The "arguments" member up to and including the quote that opens its string
\* value; the characters of the string and the closing quote follow one by one.
ArgsOpen == ",\"arguments\":\""

QWEN3_START == <<"<", "t", "o", "o", "l", "_", "c", "a", "l", "l", ">">>
QWEN3_END == <<"<", "/", "t", "o", "o", "l", "_", "c", "a", "l", "l", ">">>
DS_START == <<"<", "|", "t", "o", "o", "l", "_", "c", "a", "l", "l", "s", "_",
              "b", "e", "g", "i", "n", "|", ">">>
DS_END == <<"<", "|", "t", "o", "o", "l", "_", "c", "a", "l", "l", "s", "_",
            "e", "n", "d", "|", ">">>
DS_SEP == <<"<", "|", "t", "o", "o", "l", "_", "s", "e", "p", "|", ">">>
JSON_BLOCK_START == <<"^", "^", "^", "j", "s", "o", "n">>
JSON_BLOCK_END == <<"^", "^", "^">>

\* {start_tag, end_tag} of <think>, <thinking> and the DeepSeek alternative.
THINKING_MARKERS ==
    << <<<<"<", "t", "h", "i", "n", "k", ">">>,
         <<"<", "/", "t", "h", "i", "n", "k", ">">>>>,
       <<<<"<", "t", "h", "i", "n", "k", "i", "n", "g", ">">>,
         <<"<", "/", "t", "h", "i", "n", "k", "i", "n", "g", ">">>>>,
       <<<<"<", "|", "t", "h", "i", "n", "k", "i", "n", "g", "|", ">">>,
         <<"<", "|", "/", "t", "h", "i", "n", "k", "i", "n", "g", "|", ">">>>> >>

\* std::string::find(pat, from): the least position >= from (counted from 1)
\* where pat occurs in s, 0 for npos.
RECURSIVE Find(_, _, _)
Find(s, pat, from) ==
    IF from + Len(pat) - 1 > Len(s) THEN 0
    ELSE IF SubSeq(s, from, from + Len(pat) - 1) = pat THEN from
    ELSE Find(s, pat, from + 1)

\* s.substr(from - 1): the text from position `from` (counted from 1) on.
From(s, from) == SubSeq(s, from, Len(s))

\* The element of a one-element set. { F(x) : x \in {e} } computes e once and
\* F on its value; the steps of a function are written that way below.
Only(S) == CHOOSE x \in S : TRUE

\* p with its buffer_ replaced.
WithBuffer(p, buf) == [p EXCEPT !.buffer_ = buf]

\* processReasoning from the m-th marker pair on. The pair's start tag is
\* looked for first; without it, a parser inside a thinking block looks for
\* this pair's end tag and returns, whichever pair opened the block.
RECURSIVE ReasoningFrom(_, _)
ReasoningFrom(p, m) ==
    IF m > Len(THINKING_MARKERS) THEN p
    ELSE LET start_tag == THINKING_MARKERS[m][1]
             end_tag == THINKING_MARKERS[m][2]
             buf == p.buffer_
             start_pos == Find(buf, start_tag, 1)
         IN
         IF start_pos # 0
         THEN LET before == SubSeq(buf, 1, start_pos - 1)
                  end_pos == Find(buf, end_tag, start_pos + Len(start_tag))
              IN IF end_pos # 0
                 THEN [p EXCEPT
                         !.content_buffer_ = @ \o before,
                         !.reasoning_buffer_ =
                             @ \o SubSeq(buf, start_pos + Len(start_tag), end_pos - 1),
                         !.buffer_ = From(buf, end_pos + Len(end_tag)),
                         !.in_reasoning_ = FALSE,
                         !.thinking_forced_open_ = FALSE]
                 ELSE [p EXCEPT
                         !.content_buffer_ = @ \o before,
                         !.reasoning_buffer_ = @ \o From(buf, start_pos + Len(start_tag)),
                         !.buffer_ = <<>>,
                         !.in_reasoning_ = TRUE,
                         !.thinking_forced_open_ = TRUE]
         ELSE IF p.in_reasoning_
         THEN LET end_pos == Find(buf, end_tag, 1)
              IN IF end_pos # 0
                 THEN [p EXCEPT
                         !.reasoning_buffer_ = @ \o SubSeq(buf, 1, end_pos - 1),
                         !.buffer_ = From(buf, end_pos + Len(end_tag)),
                         !.in_reasoning_ = FALSE,
                         !.thinking_forced_open_ = FALSE]
                 ELSE [p EXCEPT
                         !.reasoning_buffer_ = @ \o buf,
                         !.buffer_ = <<>>]
         ELSE ReasoningFrom(p, m + 1)

processReasoning(p) == ReasoningFrom(p, 1)

\* detectFormat: the first marker of the chain that occurs in the buffer.
detectFormat(buf) ==
    IF Find(buf, QWEN3_START, 1) # 0 THEN "Qwen3"
    ELSE IF Find(buf, DS_START, 1) # 0 THEN "DeepSeek"
    ELSE IF Find(buf, JSON_BLOCK_START, 1) # 0 THEN "JsonBlock"
    ELSE IF /\ \/ Find(buf, <<"{", NameMember>>, 1) # 0
               \/ Find(buf, <<"{", " ", NameMember>>, 1) # 0
            /\ \/ Find(buf, <<ArgsMember>>, 1) # 0
               \/ Find(buf, <<ArgsOpen>>, 1) # 0 THEN "DirectJson"
    ELSE "Unknown"

\* Detection run on every call, whatever was detected before.
FormatAfter_always(p) == detectFormat(p.buffer_)

\* if (detected_format_ == Format::Unknown) detectFormat();
FormatAfter(p) ==
    IF p.detected_format_ = "Unknown" THEN detectFormat(p.buffer_)
    ELSE p.detected_format_

\* The random characters generateToolCallId may draw, as one number.
RandomIds == {0, 1}

\* ChatHandler::generateToolCallId(index): "call_" + 24 random characters +
\* "_" + index.
generateToolCallId(index, rnd) == <<"call_", rnd, index>>

Whitespace == {" ", "\t", "\n", "\r"}

\* find_first_not_of(" \t\n\r"), 0 for npos.
RECURSIVE FirstNotSpace(_, _)
FirstNotSpace(s, i) ==
    IF i > Len(s) THEN 0
    ELSE IF s[i] \notin Whitespace THEN i ELSE FirstNotSpace(s, i + 1)

\* find_last_not_of(" \t\n\r"), 0 for npos.
RECURSIVE LastNotSpace(_, _)
LastNotSpace(s, i) ==
    IF i < 1 THEN 0
    ELSE IF s[i] \notin Whitespace THEN i ELSE LastNotSpace(s, i - 1)

Trimmed(s) ==
    LET start == FirstNotSpace(s, 1)
        end == LastNotSpace(s, Len(s))
    IN IF start # 0 /\ end # 0 THEN SubSeq(s, start, end) ELSE s

\* The members from the i-th on parse: whole members, or an "arguments"
\* member written out, whose string runs to the next quote and must be closed.
RECURSIVE MembersParse(_, _, _)
MembersParse(members, i, inString) ==
    IF i > Len(members) THEN ~inString
    ELSE IF inString THEN MembersParse(members, i + 1, members[i] # "\"")
    ELSE IF members[i] \in {ArgsMember, IdMember} THEN MembersParse(members, i + 1, FALSE)
    ELSE IF members[i] = ArgsOpen THEN MembersParse(members, i + 1, TRUE)
    ELSE FALSE

\* json::parse succeeds: an object of the members name, arguments and id,
\* the name first when there is any member.
JsonParses(t) ==
    /\ Len(t) >= 2 /\ t[1] = "{" /\ t[Len(t)] = "}"
    /\ LET members == SubSeq(t, 2, Len(t) - 1) IN
       \/ members = <<>>
       \/ members[1] = NameMember /\ MembersParse(members, 2, FALSE)

\* j["arguments"].get<std::string>() of a parsed object: "x" of the whole
\* member, the characters up to the closing quote of a written-out one.
ArgumentsOf(trimmed) ==
    LET open == Find(trimmed, <<ArgsOpen>>, 1) IN
    IF Find(trimmed, <<ArgsMember>>, 1) # 0 THEN <<"x">>
    ELSE IF open = 0 THEN <<>>
    ELSE SubSeq(trimmed, open + 1, Find(trimmed, <<"\"">>, open + 1) - 1)

\* parseToolCallJson: the call and the value of tool_call_index_ afterwards.
\* An object without "id" takes a generated id and advances the index, with
\* or without a name; a text that is no JSON object gives ToolCall().
parseToolCallJson(json_str, index, rnd) ==
    LET trimmed == Trimmed(json_str) IN
    IF trimmed = <<>> \/ trimmed[1] # "{" \/ ~JsonParses(trimmed)
    THEN [tc |-> NoToolCall, index |-> index]
    ELSE LET members == {trimmed[i] : i \in 1..Len(trimmed)}
             hasId == IdMember \in members
         IN [tc |-> [id |-> IF hasId THEN <<"c">>
                            ELSE generateToolCallId(index, rnd),
                     name |-> IF NameMember \in members THEN "f" ELSE "",
                     arguments |-> ArgumentsOf(trimmed),
                     is_complete |-> FALSE],
             index |-> IF hasId THEN index ELSE index + 1]

\* The state of one process...Format call: the Impl fields and what the call
\* has added to result.content and result.tool_calls.
Started(p) == [impl |-> p, content |-> <<>>, tool_calls |-> <<>>]

\* ToolCall tc = parseToolCallJson(..); if (!tc.name.empty()) push it as
\* complete; then buffer_ = rest, in_tool_call_ = false.
WithParsed(st, json_str, rest, rnd) ==
    LET r == parseToolCallJson(json_str, st.impl.tool_call_index_, rnd) IN
    [impl |-> [st.impl EXCEPT !.tool_call_index_ = r.index,
                              !.buffer_ = rest,
                              !.in_tool_call_ = FALSE],
     content |-> st.content,
     tool_calls |-> IF r.tc.name # ""
                    THEN Append(st.tool_calls, [r.tc EXCEPT !.is_complete = TRUE])
                    ELSE st.tool_calls]

\* Incomplete block: buffer_ = buffer_.substr(start_pos); in_tool_call_ = true.
Waiting(st, start_pos) ==
    [st EXCEPT !.impl.buffer_ = From(@, start_pos), !.impl.in_tool_call_ = TRUE]

\* result.content += buffer_.substr(0, start_pos)
WithBefore(st, start_pos) ==
    [st EXCEPT !.content = @ \o SubSeq(st.impl.buffer_, 1, start_pos - 1)]

\* result.content += buffer_; buffer_.clear();
AllContent(st) ==
    [st EXCEPT !.content = @ \o st.impl.buffer_, !.impl.buffer_ = <<>>]

\* processQwen3Format: the while loop, then the remaining buffer.
RECURSIVE Qwen3Loop(_, _)
Qwen3Loop(st, rnd) ==
    LET buf == st.impl.buffer_
        start_pos == Find(buf, QWEN3_START, 1)
    IN IF start_pos = 0
       THEN IF ~st.impl.in_tool_call_ /\ buf # <<>>
                 /\ Find(buf, <<"<", "t", "o", "o", "l">>, 1) = 0
            THEN AllContent(st)
            ELSE st
       ELSE LET st1 == WithBefore(st, start_pos)
                end_pos == Find(buf, QWEN3_END, start_pos)
                content_start == start_pos + Len(QWEN3_START)
            IN IF end_pos = 0 THEN Waiting(st1, start_pos)
               ELSE Only({ Qwen3Loop(next, rnd) : next \in
                        {WithParsed(st1, SubSeq(buf, content_start, end_pos - 1),
                                    From(buf, end_pos + Len(QWEN3_END)), rnd)} })

processQwen3Format(p, rnd) == Only({ Qwen3Loop(st, rnd) : st \in {Started(p)} })

\* tools_content split at every DS_SEP; an empty last piece is dropped.
RECURSIVE SplitBySep(_)
SplitBySep(tools_content) ==
    LET sep_pos == Find(tools_content, DS_SEP, 1) IN
    IF sep_pos = 0
    THEN IF tools_content # <<>> THEN <<tools_content>> ELSE <<>>
    ELSE <<SubSeq(tools_content, 1, sep_pos - 1)>>
         \o SplitBySep(From(tools_content, sep_pos + Len(DS_SEP)))

\* for (const auto& ts : tool_strings) parse and push.
RECURSIVE ParseEach(_, _, _, _)
ParseEach(st, tool_strings, rest, rnd) ==
    IF tool_strings = <<>>
    THEN [st EXCEPT !.impl.buffer_ = rest, !.impl.in_tool_call_ = FALSE]
    ELSE Only({ ParseEach(next, Tail(tool_strings), rest, rnd) : next \in
             {WithParsed(st, Head(tool_strings), rest, rnd)} })

processDeepSeekFormat(p, rnd) ==
    LET st == Started(p)
        buf == p.buffer_
        start_pos == Find(buf, DS_START, 1)
    IN IF start_pos = 0 THEN AllContent(st)
       ELSE LET st1 == WithBefore(st, start_pos)
                end_pos == Find(buf, DS_END, start_pos)
                content_start == start_pos + Len(DS_START)
            IN IF end_pos = 0 THEN Waiting(st1, start_pos)
               ELSE Only({ ParseEach(st1, tool_strings,
                                     From(buf, end_pos + Len(DS_END)), rnd)
                           : tool_strings \in
                               {SplitBySep(SubSeq(buf, content_start, end_pos - 1))} })

processJsonBlockFormat(p, rnd) ==
    LET st == Started(p)
        buf == p.buffer_
        start_pos == Find(buf, JSON_BLOCK_START, 1)
    IN IF start_pos = 0 THEN AllContent(st)
       ELSE LET st1 == WithBefore(st, start_pos)
                after == start_pos + Len(JSON_BLOCK_START)
                content_start == IF after <= Len(buf) /\ buf[after] = "\n"
                                 THEN after + 1 ELSE after
                end_pos == Find(buf, JSON_BLOCK_END, content_start)
            IN IF end_pos = 0 THEN Waiting(st1, start_pos)
               ELSE WithParsed(st1, SubSeq(buf, content_start, end_pos - 1),
                               From(buf, end_pos + Len(JSON_BLOCK_END)), rnd)

\* The position of the '}' that brings the depth back to 0, 0 if none.
RECURSIVE MatchingBrace(_, _, _)
MatchingBrace(buf, i, depth) ==
    IF i > Len(buf) THEN 0
    ELSE IF buf[i] = "{" THEN MatchingBrace(buf, i + 1, depth + 1)
    ELSE IF buf[i] = "}"
         THEN (IF depth - 1 = 0 THEN i ELSE MatchingBrace(buf, i + 1, depth - 1))
    ELSE MatchingBrace(buf, i + 1, depth)

processDirectJsonFormat(p, rnd) ==
    LET st == Started(p)
        buf == p.buffer_
        obj_start == Find(buf, <<"{">>, 1)
    IN IF obj_start = 0 THEN AllContent(st)
       ELSE LET st1 == WithBefore(st, obj_start)
                obj_end == MatchingBrace(buf, obj_start, 0)
            IN IF obj_end = 0 THEN Waiting(st1, obj_start)
               ELSE WithParsed(st1, SubSeq(buf, obj_start, obj_end),
                               From(buf, obj_end + 1), rnd)

\* if (detected_format_ == Format::Unknown) detectFormat();
Detected(p) == [p EXCEPT !.detected_format_ = FormatAfter(p)]

\* switch (detected_format_): the dialect's processing; Unknown (and
\* LlamaStyle, never detected) add the whole buffer to the content.
Dialect(p, rnd) ==
    IF p.detected_format_ = "Qwen3" THEN processQwen3Format(p, rnd)
    ELSE IF p.detected_format_ = "DeepSeek" THEN processDeepSeekFormat(p, rnd)
    ELSE IF p.detected_format_ = "JsonBlock" THEN processJsonBlockFormat(p, rnd)
    ELSE IF p.detected_format_ = "DirectJson" THEN processDirectJsonFormat(p, rnd)
    ELSE AllContent(Started(p))

\* The Impl and the StreamingParseResult at the end of processBuffer.
Returned(st) ==
    [impl |-> st.impl,
     result |-> [content |-> st.content,
                 reasoning_content |-> st.impl.reasoning_buffer_,
                 tool_calls |-> st.tool_calls,
                 has_tool_calls |-> st.tool_calls # <<>>,
                 has_reasoning |-> st.impl.reasoning_buffer_ # <<>>,
                 parsing_complete |-> FALSE,
                 thinking_forced_open |-> st.impl.thinking_forced_open_]]

\* processBuffer: reasoning, detection, the dialect's processing, the result.
processBuffer(p, rnd) ==
    Only({ Returned(st) : st \in
        { Dialect(p2, rnd) : p2 \in
            { Detected(p1) : p1 \in {processReasoning(p)} } } })

\* StreamingToolCallParser::feed
feed(p, chunk, rnd) ==
    Only({ processBuffer(p0, rnd) : p0 \in {WithBuffer(p, p.buffer_ \o chunk)} })

\* StreamingToolCallParser::finalize: what is left in the buffer is content.
finalize(p, rnd) ==
    Only({ [impl |-> WithBuffer(r.impl, <<>>),
            result |-> [r.result EXCEPT !.parsing_complete = TRUE,
                                        !.content = @ \o r.impl.buffer_]]
           : r \in {processBuffer(p, rnd)} })

\* ChatHandler::parseToolCalls: a local parser is fed the whole output, the
\* result of feed is dropped, and the tool calls of finalize() are returned.
parseToolCalls(out, rnd) ==
    Only({ finalize(r.impl, rnd).result : r \in {feed(NewImpl, out, rnd)} })

\* StreamingToolCallParser::getCurrentMessage
getCurrentMessage(p) ==
    [role |-> "assistant", content |-> p.content_buffer_,
     reasoning_content |-> p.reasoning_buffer_,
     tool_calls |-> p.pending_tool_calls_]

\* StreamingParseResult::toChatMsg
toChatMsg(result) ==
    [role |-> "assistant", content |-> result.content,
     reasoning_content |-> result.reasoning_content,
     tool_calls |-> result.tool_calls]

\* std::string::npos as a tool_call_index: no tool-call update in this diff.
npos == -1

\* stringDiff returning the whole current text.
stringDiff_whole(last, current) == current

\* stringDiff: what current adds to last; "" when current does not extend last.
stringDiff(last, current) ==
    IF last = <<>> THEN current
    ELSE IF Len(current) < Len(last) THEN <<>>
    ELSE IF SubSeq(current, 1, Len(last)) # last THEN <<>>
    ELSE From(current, Len(last) + 1)

\* ChatMsgDiff as constructed.
NoDiff ==
    [reasoning_content_delta |-> <<>>, content_delta |-> <<>>,
     tool_call_index |-> npos, tool_call_delta |-> NoToolCall]

\* ChatMsgDiff::computeDiffs: reasoning, content, the last previous tool call,
\* the new tool calls. Indices are the vector's, counted from 0.
computeDiffs(msg_prev, msg_new) ==
    LET rdelta == stringDiff(msg_prev.reasoning_content, msg_new.reasoning_content)
        cdelta == stringDiff(msg_prev.content, msg_new.content)
        reasoning == IF msg_prev.reasoning_content # msg_new.reasoning_content
                        /\ rdelta # <<>>
                     THEN <<[NoDiff EXCEPT !.reasoning_content_delta = rdelta]>>
                     ELSE <<>>
        content == IF msg_prev.content # msg_new.content /\ cdelta # <<>>
                   THEN <<[NoDiff EXCEPT !.content_delta = cdelta]>>
                   ELSE <<>>
        nprev == Len(msg_prev.tool_calls)
        nnew == Len(msg_new.tool_calls)
        last == IF nprev = 0 THEN <<>>
                ELSE LET prev_tc == msg_prev.tool_calls[nprev]
                         new_tc == msg_new.tool_calls[nprev]
                         args_diff == stringDiff(prev_tc.arguments, new_tc.arguments)
                     IN IF prev_tc.name # new_tc.name THEN <<>>
                        ELSE IF args_diff # <<>> \/ prev_tc.id # new_tc.id
                        THEN <<[NoDiff EXCEPT
                                  !.tool_call_index = nprev - 1,
                                  !.tool_call_delta =
                                      [NoToolCall EXCEPT
                                         !.id = IF prev_tc.id # new_tc.id
                                                THEN new_tc.id ELSE <<>>,
                                         !.name = IF prev_tc.id # new_tc.id
                                                  THEN new_tc.name ELSE "",
                                         !.arguments = args_diff]]>>
                        ELSE <<>>
        added == [i \in 1..(nnew - nprev) |->
                     [NoDiff EXCEPT !.tool_call_index = nprev + i - 1,
                                    !.tool_call_delta = msg_new.tool_calls[nprev + i]]]
    IN IF nnew < nprev THEN reasoning \o content
       ELSE reasoning \o content \o last \o added

\* StreamingDiffTracker::update(const ChatMsg&): the diffs and the new Impl.
update(t, msg) ==
    [diffs |-> computeDiffs(IF t.first_update_ THEN EmptyMsg ELSE t.last_msg_, msg),
     impl |-> [last_msg_ |-> msg, first_update_ |-> FALSE]]

\* ---- one request: the output is fed in chunks, each result goes to update
\* Feed calls made at most for one output.
MaxChunks == 2

ToolJson == <<"{", NameMember, ArgsMember, "}">>

\* Model outputs: a thinking block of each marker pair; a Qwen3 block, then
\* text with the JSON-block marker; two direct JSON calls; a JSON block, then
\* a Qwen3 block; a DeepSeek block of two calls; plain text; two Qwen3
\* blocks whose JSON carries an "id" member; text, then a thinking block;
\* text, then a Qwen3 block that is never closed; a direct JSON call whose
\* arguments string holds a closing brace, then text.
BraceJson == <<"{", NameMember, ArgsOpen, "}", "\"", "}">>

Texts ==
    { THINKING_MARKERS[m][1] \o <<"a">> \o THINKING_MARKERS[m][2] \o <<"b">>
        : m \in 1..Len(THINKING_MARKERS) }
    \cup { <<"a">> \o QWEN3_START \o ToolJson \o QWEN3_END \o <<"b">>
               \o JSON_BLOCK_START,
           <<"x">> \o ToolJson \o <<"y">> \o ToolJson,
           JSON_BLOCK_START \o <<"\n">> \o ToolJson \o JSON_BLOCK_END
               \o QWEN3_START \o ToolJson \o QWEN3_END,
           DS_START \o ToolJson \o DS_SEP \o <<"{", NameMember, "}">> \o DS_END
               \o <<"c">>,
           <<"a", "b">>,
           QWEN3_START \o <<"{", NameMember, IdMember, "}">> \o QWEN3_END
               \o QWEN3_START \o <<"{", NameMember, IdMember, "}">> \o QWEN3_END,
           <<"p">> \o THINKING_MARKERS[1][1] \o <<"a">> \o THINKING_MARKERS[1][2]
               \o <<"b">>,
           <<"a">> \o QWEN3_START \o <<"{", NameMember>>,
           BraceJson \o <<"y">> }

RECURSIVE Concat(_)
Concat(chunks) == IF chunks = <<>> THEN <<>> ELSE Head(chunks) \o Concat(Tail(chunks))

\* The part of the output not fed yet.
Rest == From(output, Len(Concat(fed)) + 1)

InitParser ==
    /\ IdlePegVars
    /\ InitPoolVars /\ FreshConnVars("idle")
    /\ \E t \in Texts : FreshParserVars("feed", t)
    /\ FreshReqVars([i \in 1..BuffCap |-> <<>>], <<>>, <<>>)

\* parser.feed(chunk): the chunk is the next k characters of the output; the
\* last chunk the bound allows takes all that is left.
Feed ==
    /\ ppc = "feed" /\ Rest # <<>> /\ Len(fed) < MaxChunks
    /\ \E k \in 1..Len(Rest), rnd \in RandomIds :
          /\ Len(fed) = MaxChunks - 1 => k = Len(Rest)
          /\ \E chunk \in {SubSeq(Rest, 1, k)} :
                \E r \in {feed(impl_, chunk, rnd)} :
                   /\ impl_' = r.impl
                   /\ results' = Append(results, r.result)
                   /\ fed' = Append(fed, chunk)
    /\ ppc' = "update"
    /\ UNCHANGED <<pegVars, reqVars, poolVars, connVars, resets, msgs, tracker_, output, diffs>>

\* parser.finalize() at the end of the output.
Finalize ==
    /\ ppc = "feed" /\ Rest = <<>>
    /\ \E rnd \in RandomIds :
          \E r \in {finalize(impl_, rnd)} :
             /\ impl_' = r.impl
             /\ results' = Append(results, r.result)
    /\ ppc' = "update"
    /\ UNCHANGED <<pegVars, reqVars, poolVars, connVars, resets, msgs, tracker_, output, fed, diffs>>

\* tracker.update(result): StreamingDiffTracker::update(const
\* StreamingParseResult&) with the result just returned.
Update ==
    /\ ppc = "update"
    /\ \E result \in {results[Len(results)]} :
          \E u \in {update(tracker_, toChatMsg(result))} :
             /\ tracker_' = u.impl
             /\ diffs' = Append(diffs, u.diffs)
             /\ ppc' = IF result.parsing_complete THEN "end" ELSE "feed"
    /\ UNCHANGED <<pegVars, reqVars, poolVars, connVars, resets, msgs, impl_, output, fed, results>>

\* handler.parseToolCalls(output) on the complete output instead of the
\* streaming calls: its parser is a local object, impl_ is not touched; the
\* result kept is the one whose tool_calls it returns.
HandlerParseToolCalls ==
    /\ ppc = "feed" /\ fed = <<>>
    /\ \E rnd \in RandomIds :
          \E r \in {parseToolCalls(output, rnd)} :
             /\ results' = <<r>>
             /\ fed' = <<output>>
    /\ ppc' = "parsed"
    /\ UNCHANGED <<pegVars, reqVars, poolVars, connVars, resets, msgs, impl_, tracker_, output, diffs>>

\* Resets made at most in one run.
MaxResets == 1

\* reset() that leaves the detected format as it is.
reset_keepsFormat(p) ==
    [p EXCEPT !.buffer_ = <<>>, !.pending_tool_calls_ = <<>>,
              !.content_buffer_ = <<>>, !.reasoning_buffer_ = <<>>,
              !.in_tool_call_ = FALSE, !.in_reasoning_ = FALSE,
              !.thinking_forced_open_ = FALSE, !.tool_call_index_ = 0]

\* StreamingToolCallParser::reset
reset(p) ==
    [p EXCEPT !.buffer_ = <<>>, !.pending_tool_calls_ = <<>>,
              !.content_buffer_ = <<>>, !.reasoning_buffer_ = <<>>,
              !.in_tool_call_ = FALSE, !.in_reasoning_ = FALSE,
              !.thinking_forced_open_ = FALSE, !.tool_call_index_ = 0,
              !.detected_format_ = "Unknown"]

\* parser.reset() and tracker.reset(), then the next request's output.
Reset ==
    /\ ppc \in {"end", "parsed"} /\ resets < MaxResets
    /\ impl_' = reset(impl_)
    /\ resets' = resets + 1
    /\ tracker_' = [last_msg_ |-> EmptyMsg, first_update_ |-> TRUE]
    /\ \E t \in Texts : output' = t
    /\ fed' = <<>>
    /\ results' = <<>>
    /\ diffs' = <<>>
    /\ ppc' = "feed"
    /\ UNCHANGED <<pegVars, reqVars, poolVars, connVars, msgs>>

NextParser == Feed \/ Finalize \/ Update \/ HandlerParseToolCalls \/ Reset

SpecParser == InitParser /\ [][NextParser]_vars

\* ---- StreamingDiffTracker::update(const ChatMsg&) on the caller's messages
\* Updates made at most before a reset.
MaxUpdates == 2

\* A tool call as the caller has it.
Call(id, name, arguments) ==
    [id |-> <<id>>, name |-> name, arguments |-> arguments, is_complete |-> FALSE]

\* The messages a caller passes: each of four contents and two reasoning
\* texts with each of seven tool-call lists.
Messages ==
    { [role |-> "assistant", content |-> c, reasoning_content |-> r, tool_calls |-> tcs]
        : c \in {<<>>, <<"a">>, <<"a", "b">>, <<"b">>},
          r \in {<<>>, <<"r">>},
          tcs \in { <<>>,
                    <<Call("c", "f", <<"x">>)>>,
                    <<Call("c", "f", <<"x", "y">>)>>,
                    <<Call("c", "f", <<"z">>)>>,
                    <<Call("c", "g", <<"x">>)>>,
                    <<Call("c", "f", <<"x">>), Call("d", "f", <<>>)>>,
                    <<Call("c", "f", <<"x", "y">>), Call("d", "f", <<"x">>)>> } }

InitDiff ==
    /\ IdlePegVars
    /\ InitPoolVars /\ FreshConnVars("idle") /\ FreshParserVars("diff", <<>>)
    /\ FreshReqVars([i \in 1..BuffCap |-> <<>>], <<>>, <<>>)

\* tracker.update(msg)
TrackerUpdate ==
    /\ ppc = "diff" /\ Len(msgs) < MaxUpdates
    /\ \E msg \in Messages :
          \E u \in {update(tracker_, msg)} :
             /\ tracker_' = u.impl
             /\ diffs' = Append(diffs, u.diffs)
             /\ msgs' = Append(msgs, msg)
    /\ UNCHANGED <<pegVars, reqVars, poolVars, connVars, impl_, ppc, output, fed,
                   results, resets>>

\* tracker.reset(): the caller starts over.
TrackerReset ==
    /\ ppc = "diff" /\ msgs # <<>>
    /\ tracker_' = [last_msg_ |-> EmptyMsg, first_update_ |-> TRUE]
    /\ diffs' = <<>>
    /\ msgs' = <<>>
    /\ UNCHANGED <<pegVars, reqVars, poolVars, connVars, impl_, ppc, output, fed,
                   results, resets>>

NextDiff == TrackerUpdate \/ TrackerReset

SpecDiff == InitDiff /\ [][NextDiff]_vars

\* ================================== one request: read loop, HttpRequest, Deal
\* The request text is a sequence of units; one unit stands for a piece of
\* text that ends where the parser's delimiters are:
\*   <<"M", m>>     the method and the space after it
\*   <<"R", r>>     the route and the space after it
\*   <<"T">>        "HTTP/1.1\r\n"
\*   <<"H", k, v>>  the header line "k:v\r\n", v in units of its own
\*   <<"B">>        the blank line "\r\n"
\*   <<"J", x>>     body text (JSON: it has a ':' and no line end)
\* and <<>> is the byte 0. A unit counts as one byte in size and in
\* Content-Length.

\* atoi of a Content-Length value; 0 for text that is no number.
Atoi(v) ==
    CASE v = <<"2">> -> 2
      [] v = <<" ", "2">> -> 2
      [] v = <<"4">> -> 4
      [] OTHER -> 0

\* The while (true) loop of HttpRequest::IsValid and HttpRequest::Init from
\* unit i on: header lines are stored until the blank line or the byte 0.
\* A byte past the buffer reads as 0 (the loop stops past 1 MiB). Body text
\* met in the loop is taken as a key up to its ':' and a value up to the next
\* line end. At the blank line IsValid compares the bytes after it
\* (size - offset - 2) with Content-Length, if that key was stored.
RECURSIVE HeaderLoop(_, _, _, _)
HeaderLoop(b, sz, i, headers) ==
    LET c == IF i <= BuffCap THEN b[i] ELSE <<>> IN
    IF c = <<>>
    THEN [blank |-> 0, headers |-> headers, valid |-> FALSE]
    ELSE IF c = <<"B">>
    THEN [blank |-> i, headers |-> headers,
          valid |-> \A h \in headers :
                       h[1] = "Content-Length" => sz - i >= Atoi(h[2])]
    ELSE IF c[1] = "H"
    THEN HeaderLoop(b, sz, i + 1,
                    {h \in headers : h[1] # c[2]} \cup {<<c[2], c[3]>>})
    ELSE LET ends == {j \in (i + 1)..BuffCap : b[j] = <<>> \/ b[j][1] \in {"H", "B"}}
             j == IF ends = {} THEN 0
                  ELSE CHOOSE e \in ends : \A f \in ends : e <= f
         IN IF j = 0 \/ b[j] = <<>>
            THEN [blank |-> 0, headers |-> headers, valid |-> FALSE]
            ELSE HeaderLoop(b, sz, j + 1, headers)

\* HttpRequest::IsValid(buffer, size): method, route and type are read up to
\* the byte 0, then the loop; what lies in the buffer after size is read too.
IsValid(b, sz) ==
    /\ sz > 0
    /\ b[1] # <<>> /\ b[2] # <<>> /\ b[3] # <<>>
    /\ HeaderLoop(b, sz, 4, {}).valid

\* HttpRequest::Init(buffer): the same reading; at the blank line the body is
\* all that follows up to the byte 0.
HttpRequestInit(b) ==
    LET r == IF b[1] # <<>> /\ b[2] # <<>> /\ b[3] # <<>>
             THEN HeaderLoop(b, 0, 4, {})
             ELSE [blank |-> 0, headers |-> {}, valid |-> FALSE]
        nul == CHOOSE e \in (r.blank + 1)..(BuffCap + 1) :
                  /\ e = BuffCap + 1 \/ b[e] = <<>>
                  /\ \A f \in (r.blank + 1)..(e - 1) : b[f] # <<>>
    IN [method |-> IF b[1] = <<>> THEN "" ELSE b[1][2],
        route |-> IF b[1] = <<>> \/ b[2] = <<>> THEN "" ELSE b[2][2],
        headers |-> r.headers,
        body |-> IF r.blank = 0 THEN <<>> ELSE SubSeq(b, r.blank + 1, nul - 1)]

\* A json11::Json that is null: every member lookup gives the null value.
NullJson ==
    [messages |-> FALSE, prompt |-> FALSE, model |-> "", temperature |-> {},
     top_p |-> {}, frequency_penalty |-> {}, presence_penalty |-> {},
     content |-> <<>>, tokensIsArray |-> FALSE, tokens |-> <<>>]

\* The JSON bodies of the model by the name their first unit carries: what
\* json11 parses them to. "messages"/"prompt": the member is an array / a
\* string; a number member is the set of its value, empty when absent.
Bodies ==
    [chat |-> [NullJson EXCEPT !.messages = TRUE, !.model = "m", !.temperature = {1}],
     chatZ |-> [NullJson EXCEPT !.messages = TRUE, !.model = "z"],
     chatT |-> [NullJson EXCEPT !.messages = TRUE, !.temperature = {3}],
     chatF |-> [NullJson EXCEPT !.prompt = TRUE, !.presence_penalty = {-3}],
     none |-> NullJson,
     prompt |-> [NullJson EXCEPT !.prompt = TRUE, !.presence_penalty = {-3}],
     promptZ |-> [NullJson EXCEPT !.prompt = TRUE, !.model = "z"],
     promptP |-> [NullJson EXCEPT !.prompt = TRUE, !.top_p = {2}],
     t0 |-> [NullJson EXCEPT !.content = <<>>],
     t1 |-> [NullJson EXCEPT !.content = <<"a">>],
     t2 |-> [NullJson EXCEPT !.content = <<"a", "b">>],
     t3 |-> [NullJson EXCEPT !.content = <<"b", "a", "b">>],
     d0 |-> [NullJson EXCEPT !.tokensIsArray = TRUE],
     d1 |-> [NullJson EXCEPT !.tokensIsArray = TRUE, !.tokens = <<2, 3>>]]

\* WorkNode::Init: config = json11::Json::parse(request.body, error). The
\* body parses when it is whole: its text and the closing brace.
Config(body) ==
    IF Len(body) = 2 /\ body[2] = <<"J", "}">> /\ body[1][1] = "J"
       /\ body[1][2] \in DOMAIN Bodies
    THEN Bodies[body[1][2]]
    ELSE NullJson

\* ExtractApiKey: the value of the header "Authorization" without its
\* leading spaces; what follows the prefix "Bearer ", "" without the prefix.
ExtractApiKey(req) ==
    LET found == {h \in req.headers : h[1] = "Authorization"} IN
    IF found = {} THEN <<>>
    ELSE LET v == (CHOOSE h \in found : TRUE)[2]
             ks == {k \in 1..Len(v) : v[k] # " "}
             auth == IF ks = {} THEN <<>>
                     ELSE SubSeq(v, CHOOSE k \in ks : \A m \in ks : k <= m, Len(v))
         IN IF Len(auth) > 1 /\ auth[1] = "Bearer " THEN Tail(auth) ELSE <<>>

\* ValidateApiKey with every Bearer token accepted.
ValidateApiKey_anyKey(req, expectedKey) ==
    expectedKey = <<>> \/ ExtractApiKey(req) # <<>>

\* ValidateApiKey: no key configured passes; else the keys must be equal.
ValidateApiKey(req, expectedKey) ==
    expectedKey = <<>> \/ ExtractApiKey(req) = expectedKey

\* The route and method tests of Deal, in the order of the code.
Endpoint(req) ==
    IF req.route \in {"/health", "/v1/health"} /\ req.method = "GET" THEN "health"
    ELSE IF req.route \in {"/version", "/version/"} /\ req.method = "GET"
    THEN "version"
    ELSE IF req.route \in {"/tokenize", "/tokenize/"} /\ req.method = "POST"
    THEN "tokenize"
    ELSE IF req.route \in {"/detokenize", "/detokenize/"} /\ req.method = "POST"
    THEN "detokenize"
    ELSE IF req.route \in {"/v1/models", "/v1/models/"} /\ req.method = "GET"
    THEN "models"
    ELSE IF req.route \in {"/v1/chat/completions", "/v1/chat/completions/"}
            /\ req.method = "POST"
    THEN "chat"
    ELSE IF req.route \in {"/v1/completions", "/v1/completions/"}
            /\ req.method = "POST"
    THEN "completions"
    ELSE "none"

\* The tokenizer of the engine, as an invertible pair: the pieces are "a"
\* (1), "b" (2) and "ab" (3), Encode takes the longest piece first.
RECURSIVE Encode(_)
Encode(s) ==
    IF s = <<>> THEN <<>>
    ELSE IF Len(s) >= 2 /\ s[1] = "a" /\ s[2] = "b"
    THEN <<3>> \o Encode(SubSeq(s, 3, Len(s)))
    ELSE <<IF s[1] = "a" THEN 1 ELSE 2>> \o Encode(Tail(s))

RECURSIVE Decode(_)
Decode(ts) ==
    IF ts = <<>> THEN <<>>
    ELSE (CASE Head(ts) = 1 -> <<"a">>
            [] Head(ts) = 2 -> <<"b">>
            [] Head(ts) = 3 -> <<"a", "b">>
            [] OTHER -> <<>>) \o Decode(Tail(ts))

\* /detokenize: 400 without a "tokens" array; the ids go through
\* static_cast<float> (exact below 2^24) to Decode; no ids give "".
Detokenize(cfg) ==
    LET float(n) == IF n <= 16777216 THEN n ELSE 2 * (n \div 2) IN
    IF ~cfg.tokensIsArray THEN [status |-> 400, content |-> <<>>]
    ELSE [status |-> 200,
          content |-> Decode([i \in 1..Len(cfg.tokens) |-> float(cfg.tokens[i])])]

\* The validation of /v1/chat/completions and /v1/completions: the status
\* of the error answer, 0 when the request passes. ::config.modelName is "m".
ValidationError(k, cfg) ==
    LET noModel == cfg.model # "" /\ cfg.model # "m"
        bad(member, lo, hi) == \E v \in member : v < lo \/ v > hi
    IN IF k = "chat"
       THEN IF noModel THEN 404
            ELSE IF ~cfg.messages /\ ~cfg.prompt THEN 400
            ELSE IF bad(cfg.temperature, 0, 2) THEN 400
            ELSE IF bad(cfg.top_p, 0, 1) THEN 400
            ELSE IF bad(cfg.frequency_penalty, -2, 2) THEN 400
            ELSE IF bad(cfg.presence_penalty, -2, 2) THEN 400
            ELSE 0
       ELSE IF ~cfg.prompt THEN 400
            ELSE IF noModel THEN 404
            ELSE IF bad(cfg.temperature, 0, 2) THEN 400
            ELSE IF bad(cfg.top_p, 0, 1) THEN 400
            ELSE IF bad(cfg.frequency_penalty, -2, 2) THEN 400
            ELSE 0

\* LaunchResponseTokens called whatever the validation found.
LaunchesFor_always(err) == 1

\* Calls of LaunchResponseTokens the handler makes for a request whose
\* validation gave err: the error answers return before the call.
LaunchesFor(err) == IF err = 0 THEN 1 ELSE 0

\* The requests clients send. The configured key, when there is one, is "k".
ClientRequests ==
    LET good == <<"H", "Authorization", <<" ", "Bearer ", "k">>>>
        cl2 == <<"H", "Content-Length", <<" ", "2">>>>
        get(r, hs) == <<<<"M", "GET">>, <<"R", r>>, <<"T">>>> \o hs \o <<<<"B">>>>
        post(r, hs, x) ==
            <<<<"M", "POST">>, <<"R", r>>, <<"T">>>> \o hs
                \o <<<<"B">>, <<"J", x>>, <<"J", "}">>>>
    IN { get("/health", <<>>), get("/version", <<>>), get("/version/", <<>>),
         get("/v1/models", <<>>), get("/v1/models", <<good>>),
         get("/v1/models", <<<<"H", "Authorization", <<"Bearer ", "k">>>>>>),
         get("/v1/models", <<<<"H", "Authorization", <<" ", "Bearer ", "x">>>>>>),
         get("/v1/models", <<<<"H", "Authorization", <<" ", "Bearer ", " ", "k">>>>>>),
         get("/v1/models", <<<<"H", "Authorization", <<" ", "bearer ", "k">>>>>>),
         get("/v1/models", <<<<"H", "Authorization", <<" ", "Bearer ">>>>>>),
         get("/v1/models", <<<<"H", "authorization", <<" ", "Bearer ", "k">>>>>>),
         get("/nowhere", <<good>>),
         post("/health", <<cl2>>, "none"),
         post("/v1/chat/completions", <<cl2>>, "chat"),
         post("/v1/chat/completions", <<<<"H", "content-length", <<" ", "2">>>>>>,
              "chat"),
         post("/v1/chat/completions", <<>>, "chat"),
         post("/v1/chat/completions", <<good, cl2,
              <<"H", "Accept", <<"*">>>>, <<"H", "Host", <<"h">>>>,
              <<"H", "Connection", <<"close">>>>>>, "chat"),
         post("/v1/completions", <<cl2>>, "prompt") }
       \cup { post("/v1/chat/completions", <<good, cl2>>, x)
                : x \in {"chat", "chatZ", "chatT", "chatF", "none"} }
       \cup { post("/v1/completions", <<good, cl2>>, x)
                : x \in {"prompt", "promptZ", "promptP", "none"} }
       \cup { post("/tokenize", <<good, cl2>>, x) : x \in {"t0", "t1", "t2", "t3"} }
       \cup { post("/detokenize", <<good, cl2>>, x) : x \in {"d0", "d1", "none"} }

\* The contents of buff when accept() returns: zeros as the program starts
\* (char buff[..] = {0}), or what the connection before left in it, the
\* part of its request that was read.
StaleBuffers ==
    { [i \in 1..BuffCap |-> IF i <= p[2] THEN p[1][i] ELSE <<>>]
        : p \in { q0 \in ClientRequests \X (0..BuffCap) : q0[2] <= Len(q0[1]) } }

\* accept() returned a connection; the key is configured or not.
InitRequest ==
    /\ IdlePegVars
    /\ InitPoolVars /\ FreshConnVars("read") /\ FreshParserVars("idle", <<>>)
    /\ \E b \in StaleBuffers, t \in ClientRequests, key \in {<<>>, <<"k">>} :
          FreshReqVars(b, t, key)

\* What read() put into buff + size: the next k units of the client's text.
Received(k) ==
    [i \in 1..BuffCap |->
        IF size < i /\ i <= size + k THEN sent[i] ELSE buff[i]]

\* After the read loop, size > 0: buff[size] = 0; the wait for room in the
\* queue (the pool model); workQueue.Push(buff, client), which initialises
\* the request from the buffer. With size = sizeof(buff) the 0 is written
\* past the end of buff: undefined behaviour, the run goes on or ends.
PushAfterRead(b, sz) ==
    /\ buff' = [i \in 1..BuffCap |-> IF i = sz + 1 THEN <<>> ELSE b[i]]
    /\ oob' = (sz = BuffCap)
    /\ \/ /\ request' = HttpRequestInit(buff')
          /\ cpc' = "queued"
       \/ /\ sz = BuffCap
          /\ cpc' = "crashed"
          /\ UNCHANGED request

\* read() returned cur > 0 and IsValid(buff, size) is false: read again.
Recv ==
    /\ cpc = "read" /\ size < BuffCap /\ size < Len(sent)
    /\ \E k \in 1..(Len(sent) - size) :
          /\ size + k <= BuffCap
          /\ ~IsValid(Received(k), size + k)
          /\ buff' = Received(k)
          /\ size' = size + k
    /\ UNCHANGED <<pegVars, poolVars, parserVars, cpc, closes, kind, isStream, limit, handle,
                   aborts, hdrs, wire, outputTokens, utf8Buffer, decodedAll,
                   includeUsage, hasTools, toolCalls, finishReason,
                   sent, request, apiKey, status, answer, oob>>

\* read() returned cur > 0 and IsValid(buff, size) is true: break, Push.
RecvComplete ==
    /\ cpc = "read" /\ size < BuffCap /\ size < Len(sent)
    /\ \E k \in 1..(Len(sent) - size) :
          /\ size + k <= BuffCap
          /\ IsValid(Received(k), size + k)
          /\ size' = size + k
          /\ PushAfterRead(Received(k), size + k)
    /\ UNCHANGED <<pegVars, poolVars, parserVars, closes, kind, isStream, limit, handle,
                   aborts, hdrs, wire, outputTokens, utf8Buffer, decodedAll,
                   includeUsage, hasTools, toolCalls, finishReason,
                   sent, apiKey, status, answer>>

\* read() returned cur <= 0: the peer closed or failed, or the buffer is full
\* and nothing was asked for. close(client); break; size == 0 skips the
\* connection, any other size goes on to Push.
RecvEnd ==
    /\ cpc = "read"
    /\ closes' = closes + 1
    /\ IF size = 0
       THEN cpc' = "skipped" /\ UNCHANGED <<buff, request, oob>>
       ELSE PushAfterRead(buff, size)
    /\ UNCHANGED <<pegVars, poolVars, parserVars, size, kind, isStream, limit, handle,
                   aborts, hdrs, wire, outputTokens, utf8Buffer, decodedAll,
                   includeUsage, hasTools, toolCalls, finishReason,
                   sent, apiKey, status, answer>>

\* The answer of a handler that returns after one message: SendJson (or
\* WriteAll) with status st, then CloseSocket.
Answered(k, st, value) ==
    /\ cpc = "queued"
    /\ kind' = k
    /\ status' = st
    /\ answer' = value
    /\ closes' = closes + 1
    /\ cpc' = "closed"
    /\ UNCHANGED <<pegVars, poolVars, parserVars, size, isStream, limit, handle,
                   aborts, hdrs, wire, outputTokens, utf8Buffer, decodedAll,
                   includeUsage, hasTools, toolCalls, finishReason,
                   buff, sent, request, apiKey, oob>>

\* GET /health, /v1/health, /version, /version/: answered before the key check.
DealOpen ==
    /\ Endpoint(request) \in {"health", "version"}
    /\ Answered(Endpoint(request), 200, <<>>)

\* if (!ValidateApiKey(*req, ::config.apiKey)) { SendUnauthorized(..); .. }
DealUnauthorized ==
    /\ Endpoint(request) \notin {"health", "version"}
    /\ ~ValidateApiKey(request, apiKey)
    /\ Answered("unauthorized", 401, <<>>)

\* POST /tokenize: 400 when "content" is empty, else the ids of Encode.
DealTokenize ==
    /\ Endpoint(request) = "tokenize"
    /\ ValidateApiKey(request, apiKey)
    /\ \E content \in {Config(request.body).content} :
          IF content = <<>>
          THEN Answered("tokenize", 400, <<>>)
          ELSE Answered("tokenize", 200, Encode(content))

\* POST /detokenize
DealDetokenize ==
    /\ Endpoint(request) = "detokenize"
    /\ ValidateApiKey(request, apiKey)
    /\ \E r \in {Detokenize(Config(request.body))} :
          Answered("detokenize", r.status, r.content)

\* GET /v1/models answers 200; a request no route test matches gets
\* CloseSocket and no answer.
DealOther ==
    /\ Endpoint(request) \in {"models", "none"}
    /\ ValidateApiKey(request, apiKey)
    /\ IF Endpoint(request) = "models"
       THEN Answered("models", 200, <<>>)
       ELSE Answered("none", 0, <<>>)

\* POST /v1/chat/completions and /v1/completions up to the launch: the
\* validation answers with its error and returns; a request that passes is
\* launched, and the rest of the handler is the connection model's.
DealEngine(k) ==
    /\ cpc = "queued"
    /\ Endpoint(request) = k
    /\ ValidateApiKey(request, apiKey)
    /\ \E err \in {ValidationError(k, Config(request.body))} :
          /\ handle' = IF LaunchesFor(err) > 0 THEN "live" ELSE "none"
          /\ status' = err
          /\ closes' = IF err # 0 THEN closes + 1 ELSE closes
          /\ cpc' = IF err # 0 THEN "closed" ELSE "launched"
    /\ kind' = k
    /\ UNCHANGED <<pegVars, poolVars, parserVars, size, isStream, limit,
                   aborts, hdrs, wire, outputTokens, utf8Buffer, decodedAll,
                   includeUsage, hasTools, toolCalls, finishReason,
                   buff, sent, request, apiKey, answer, oob>>

NextRequest ==
    \/ Recv \/ RecvComplete \/ RecvEnd
    \/ DealOpen \/ DealUnauthorized \/ DealTokenize \/ DealDetokenize \/ DealOther
    \/ \E k \in {"chat", "completions"} : DealEngine(k)

SpecRequest == InitRequest /\ [][NextRequest]_vars

\* ================================================================ PegParser
\* size_t is modelled three bits wide: positions and counts are 0..SIZE_MAX
\* and sums wrap around.
SIZE_MAX == 7

Wrap(n) == n % (SIZE_MAX + 1)

\* Inputs have at most this many characters.
MaxInput == 2

\* A rule object: its class (type) and the members of that class, the others
\* left at a default.
NullRule ==
    [type |-> "null", text |-> <<>>, count |-> 0, include |-> FALSE,
     rules |-> <<>>, min_count |-> 0, max_count |-> 0]

\* The factory methods of PegParser.
literal(text) == [NullRule EXCEPT !.type = "literal", !.text = text]
until(delimiter, include) ==
    [NullRule EXCEPT !.type = "until", !.text = delimiter, !.include = include]
sequence(rules) == [NullRule EXCEPT !.type = "sequence", !.rules = rules]
choice(rules) == [NullRule EXCEPT !.type = "choice", !.rules = rules]
optional(rule) == [NullRule EXCEPT !.type = "optional", !.rules = <<rule>>]
repeat(rule, min_count, max_count) ==
    [NullRule EXCEPT !.type = "repeat", !.rules = <<rule>>,
                     !.min_count = min_count, !.max_count = max_count]
zeroOrMore(rule) == repeat(rule, 0, SIZE_MAX)
oneOrMore(rule) == repeat(rule, 1, SIZE_MAX)
anyChar(count) == [NullRule EXCEPT !.type = "anyChar", !.count = count]

\* PegParseResult of a rule that failed at pos / matched up to end_pos.
\* Captures and error_message are left out.
Failure(p) == [success |-> FALSE, matched |-> <<>>, start_pos |-> p, end_pos |-> 0]
Success(p, matched, end_pos) ==
    [success |-> TRUE, matched |-> matched, start_pos |-> p, end_pos |-> end_pos]

\* The locals of RepeatRule::parse as the loop starts.
NewFrame(p) == [current_pos |-> p, count |-> 0, matched |-> <<>>]

RECURSIVE parseRule(_, _, _)
RECURSIVE SequenceFrom(_, _, _, _, _)
RECURSIVE ChoiceFrom(_, _, _)
RECURSIVE RepeatRun(_, _, _)

\* while (count < max_count_): the inner rule matched and consumed input.
RepeatContinues(rule, in, fr) ==
    /\ fr.count < rule.max_count
    /\ \E r \in {parseRule(rule.rules[1], in, fr.current_pos)} :
          r.success /\ r.end_pos # fr.current_pos

\* matched += r.matched; current_pos = r.end_pos; ++count;
RepeatIteration(rule, in, fr) ==
    Only({ [current_pos |-> r.end_pos, count |-> Wrap(fr.count + 1),
            matched |-> fr.matched \o r.matched]
           : r \in {parseRule(rule.rules[1], in, fr.current_pos)} })

\* After the loop: failure below min_count_, else the match up to current_pos.
RepeatResult(rule, fr, p) ==
    IF fr.count < rule.min_count THEN Failure(p)
    ELSE Success(p, fr.matched, fr.current_pos)

\* The loop of RepeatRule::parse run to its end.
RepeatRun(rule, in, fr) ==
    IF RepeatContinues(rule, in, fr)
    THEN RepeatRun(rule, in, RepeatIteration(rule, in, fr))
    ELSE fr

\* SequenceRule::parse from the i-th rule on.
SequenceFrom(rules, i, in, current_pos, matched) ==
    IF i > Len(rules) THEN [success |-> TRUE, matched |-> matched, end_pos |-> current_pos]
    ELSE Only({ IF ~r.success THEN [success |-> FALSE, matched |-> <<>>, end_pos |-> 0]
                ELSE SequenceFrom(rules, i + 1, in, r.end_pos, matched \o r.matched)
                : r \in {parseRule(rules[i], in, current_pos)} })

\* ChoiceRule::parse: the result of the first rule that matches.
ChoiceFrom(rules, in, p) ==
    IF rules = <<>> THEN Failure(p)
    ELSE Only({ IF r.success THEN r ELSE ChoiceFrom(Tail(rules), in, p)
                : r \in {parseRule(Head(rules), in, p)} })

\* parseRule: the parse method of the rule's class at position p (from 0).
parseRule(rule, in, p) ==
    CASE rule.type = "literal" ->
            IF Wrap(p + Len(rule.text)) > Len(in) THEN Failure(p)
            ELSE IF SubSeq(in, p + 1, p + Len(rule.text)) = rule.text
            THEN Success(p, rule.text, Wrap(p + Len(rule.text)))
            ELSE Failure(p)
      [] rule.type = "until" ->
            LET found == Find(in, rule.text, p + 1) IN
            IF found = 0 THEN Failure(p)
            ELSE Success(p, SubSeq(in, p + 1, found - 1),
                         (found - 1) + (IF rule.include THEN Len(rule.text) ELSE 0))
      [] rule.type = "sequence" ->
            LET r == SequenceFrom(rule.rules, 1, in, p, <<>>) IN
            IF r.success THEN Success(p, r.matched, r.end_pos) ELSE Failure(p)
      [] rule.type = "choice" -> ChoiceFrom(rule.rules, in, p)
      [] rule.type = "optional" ->
            LET r == parseRule(rule.rules[1], in, p) IN
            IF r.success THEN r ELSE Success(p, <<>>, p)
      [] rule.type = "repeat" ->
            RepeatResult(rule, RepeatRun(rule, in, NewFrame(p)), p)
      [] rule.type = "anyChar" ->
            IF Wrap(p + rule.count) <= Len(in)
            THEN Success(p, SubSeq(in, p + 1, IF p + rule.count < Len(in)
                                              THEN p + rule.count ELSE Len(in)),
                         Wrap(p + rule.count))
            ELSE Failure(p)
      [] OTHER -> [success |-> FALSE, matched |-> <<>>, start_pos |-> 0, end_pos |-> 0]

\* The rules repeated, and the root rules: each of them alone, under each
\* repetition, and a repetition inside a sequence; no root at all.
InnerRules ==
    { literal(<<"a">>), literal(<<>>), anyChar(1), anyChar(0), anyChar(SIZE_MAX),
      optional(literal(<<"a">>)), until(<<"b">>, FALSE), until(<<"b">>, TRUE),
      sequence(<<literal(<<"a">>), literal(<<"b">>)>>),
      choice(<<literal(<<"a">>), anyChar(SIZE_MAX)>>),
      choice(<<literal(<<"b">>), optional(literal(<<"a">>))>>) }

Roots ==
    InnerRules
    \cup { zeroOrMore(r) : r \in InnerRules }
    \cup { oneOrMore(r) : r \in InnerRules }
    \cup { repeat(r, 1, 2) : r \in InnerRules }
    \cup { repeat(literal(<<"a">>), 2, 1),
           sequence(<<zeroOrMore(literal(<<"a">>)), literal(<<"b">>)>>),
           NullRule }

Inputs == UNION { [1..n -> {"a", "b"}] : n \in 0..MaxInput }

\* parser.setRoot(rule), then parser.parse(input, start_pos) or
\* parser.parseAll(input).
InitPeg ==
    /\ InitPoolVars /\ FreshConnVars("idle") /\ FreshParserVars("idle", <<>>)
    /\ FreshReqVars([i \in 1..BuffCap |-> <<>>], <<>>, <<>>)
    /\ root_ \in Roots
    /\ input \in Inputs
    /\ call \in {"parse", "parseAll"}
    /\ pegpc = call
    /\ pos \in 0..Len(input)
    /\ call = "parseAll" => pos = 0
    /\ peg_results = <<>>
    /\ frame = NewFrame(0)

\* The caller of parseRule(root_, input, pos) takes its result r: parse
\* returns it; parseAll keeps a match that consumed input and goes on behind
\* it, else goes on one character further.
Returned_(r) ==
    IF call = "parse"
    THEN /\ peg_results' = <<r>>
         /\ pegpc' = "done"
         /\ pos' = pos
    ELSE /\ peg_results' = IF r.success /\ r.end_pos > pos
                           THEN Append(peg_results, r) ELSE peg_results
         /\ pos' = IF r.success /\ r.end_pos > pos THEN r.end_pos ELSE Wrap(pos + 1)
         /\ pegpc' = "parseAll"

\* parseRule(root_, input, pos) is called: the loop of a RepeatRule root is
\* entered, any other rule gives its result.
CallRoot ==
    IF root_.type = "repeat"
    THEN /\ frame' = NewFrame(pos)
         /\ pegpc' = "repeat"
         /\ UNCHANGED <<pos, peg_results>>
    ELSE /\ \E r \in {parseRule(root_, input, pos)} : Returned_(r)
         /\ UNCHANGED frame

\* PegParser::parse(input, start_pos)
Parse ==
    /\ pegpc = "parse"
    /\ IF root_.type = "null"
       THEN /\ peg_results' = <<[success |-> FALSE, matched |-> <<>>,
                                 start_pos |-> 0, end_pos |-> 0]>>
            /\ pegpc' = "done"
            /\ UNCHANGED <<pos, frame>>
       ELSE CallRoot
    /\ UNCHANGED <<poolVars, connVars, parserVars, reqVars, call, root_, input>>

\* PegParser::parseAll: one test of while (pos < input.size()) and the call
\* of parseRule it leads to.
ParseAllLoop ==
    /\ pegpc = "parseAll" /\ root_.type # "null" /\ pos < Len(input)
    /\ CallRoot
    /\ UNCHANGED <<poolVars, connVars, parserVars, reqVars, call, root_, input>>

\* PegParser::parseAll returns: no root, or pos has reached the end.
ParseAllReturn ==
    /\ pegpc = "parseAll" /\ (root_.type = "null" \/ pos >= Len(input))
    /\ pegpc' = "done"
    /\ UNCHANGED <<poolVars, connVars, parserVars, reqVars, call, root_, input, pos,
                   peg_results, frame>>

\* One iteration of the loop of RepeatRule::parse of the root.
RepeatIterate ==
    /\ pegpc = "repeat" /\ RepeatContinues(root_, input, frame)
    /\ frame' = RepeatIteration(root_, input, frame)
    /\ UNCHANGED <<poolVars, connVars, parserVars, reqVars, call, root_, input, pegpc,
                   pos, peg_results>>

\* The loop of RepeatRule::parse of the root ends and the rule returns.
RepeatReturn ==
    /\ pegpc = "repeat" /\ ~RepeatContinues(root_, input, frame)
    /\ \E r \in {RepeatResult(root_, frame, pos)} : Returned_(r)
    /\ UNCHANGED <<poolVars, connVars, parserVars, reqVars, call, root_, input, frame>>

NextPeg == Parse \/ ParseAllLoop \/ ParseAllReturn \/ RepeatIterate \/ RepeatReturn

SpecPeg == InitPeg /\ [][NextPeg]_vars

\* ---------------------------------------------------------------- claims (pool)
\* C1: in every reachable state 0 <= activateQueryNumber <= maxActivateQueryNumber;
\* the counter grows only by one, in the dispatcher's admission loop together
\* with the spawn of a worker, and shrinks only by one, in a worker whose Deal
\* has returned.
C1_ActiveCountBounded ==
    /\ [](0 <= activateQueryNumber /\ activateQueryNumber <= MaxActive)
    /\ [][/\ (activateQueryNumber' > activateQueryNumber =>
                /\ activateQueryNumber' = activateQueryNumber + 1
                /\ dpc = "loop" /\ locker = "dispatcher"
                /\ Len(admitted') = Len(admitted) + 1)
          /\ (activateQueryNumber' < activateQueryNumber =>
                /\ activateQueryNumber' = activateQueryNumber - 1
                /\ \E r \in Requests : wpc[r] = "returned" /\ wpc'[r] = "done")]_vars

\* C1 witness: the counter has reached the cap again after a worker decremented it.
C1_Witness ==
    /\ activateQueryNumber = MaxActive
    /\ \E r \in Requests : decs[r] = 1

\* C2: workers are spawned in exactly the order Push appended the requests: the
\* admission history is a prefix of the push history.
C2_AdmissionFifo ==
    /\ Len(admitted) <= Len(pushed)
    /\ admitted = SubSeq(pushed, 1, Len(admitted))

\* C2 witness: two requests were admitted while a third waits behind them.
C2_Witness == Len(admitted) >= 2 /\ q # <<>>

\* C3: no pushed request is dropped (it is in the queue or was admitted), a
\* worker is spawned only while activateQueryNumber < maxActivateQueryNumber (so
\* a request arriving at the cap stays queued), and under fair scheduling every
\* queued request is eventually admitted unless a handler failed to return.
C3_EventuallyAdmitted ==
    /\ [](Range(pushed) = Range(q) \cup Range(admitted))
    /\ [][admitted' # admitted => activateQueryNumber < MaxActive]_vars
    /\ \A r \in Requests :
          (r \in Range(q)) ~> (wpc[r] # "none" \/ terminated)

\* C3 witness: one request more than the cap has been admitted and the pool is
\* at the cap, so the last one started only after a running worker completed.
C3_Witness ==
    /\ Len(admitted) = MaxActive + 1
    /\ activateQueryNumber = MaxActive
    /\ \E r \in Requests : wpc[r] = "done"

\* C7: activateQueryNumber is decremented exactly once for every admitted
\* request however its handler ended, an exception included.
C7_DecrementOnEveryExit ==
    \A r \in Requests : wpc[r] \in {"done", "threw"} => decs[r] = 1

\* ---------------------------------------------------------- claims (connection)
EngineStream == kind \in {"chat", "completions"} /\ isStream
Failed(i) == ~wire[i].ok

\* C4: the client socket of every accepted connection is closed exactly once
\* over the connection's whole lifetime, accept loop and worker together.
C4_ClosedExactlyOnce ==
    /\ closes <= 1
    /\ cpc \in {"closed", "skipped"} => closes = 1

\* C5: a launched handle of the chat and completion handlers is, when the
\* worker has returned, either fetched to the terminal sentinel or aborted
\* exactly once, never both and never neither; AbortResponse is never called
\* twice, nor without a handle, nor after the sentinel.
C5_HandleTerminalOrAborted ==
    /\ aborts <= 1
    /\ handle = "aborted" <=> aborts = 1
    /\ handle = "none" <=> kind \notin EngineRoutes \/ cpc = "queued"
                           \/ (cpc = "closed" /\ wire # <<>> /\ wire[Len(wire)].ev = "error")
    /\ (cpc = "closed" /\ kind \in {"chat", "completions"} /\ handle # "none")
          => handle \in {"terminal", "aborted"}

\* C5 witness: a chat stream aborted after at least one token was fetched.
C5_Witness ==
    /\ cpc = "closed" /\ kind = "chat" /\ isStream
    /\ handle = "aborted" /\ outputTokens >= 1

\* C6 (as claimed): in a finished stream in which a write failed, the failed
\* write is the last one, the handle was aborted and [DONE] was never written.
C6_AnyFailedWriteEndsStream ==
    (cpc = "closed" /\ EngineStream) =>
        \A i \in 1..Len(wire) :
            Failed(i) => /\ i = Len(wire)
                         /\ handle = "aborted"
                         /\ \A j \in 1..Len(wire) : wire[j].ev # "done"

\* C6 (amended): a failed write of the headers, of the role or echo chunk or
\* of a content chunk is the stream's last write, after which the handle is
\* aborted once and the socket closed, so [DONE] never follows it; the result
\* of writing the final chunk is ignored: the handle, already terminal, is not
\* aborted and [DONE] is still written.
C6_CheckedWritesEndStream ==
    EngineStream =>
        /\ (hdrs # <<>> /\ ~hdrs[1].ok) =>
              wire = <<>> /\ handle = "aborted" /\ aborts = 1 /\ cpc = "closed"
        /\ \A i \in 1..Len(wire) :
              (Failed(i) /\ wire[i].ev \in {"role", "echo", "content"}) =>
                  /\ i = Len(wire)
                  /\ handle = "aborted" /\ aborts = 1 /\ cpc = "closed"
        /\ (cpc = "closed" /\ handle = "terminal") =>
              /\ aborts = 0
              /\ wire[Len(wire)].ev = "done"
              /\ wire[Len(wire) - 1].ev = "final"

\* C6 witness: a stream ended by the failed write of a content chunk.
C6_Witness ==
    /\ cpc = "closed" /\ EngineStream /\ handle = "aborted" /\ wire # <<>>
    /\ wire[Len(wire)].ev = "content" /\ Failed(Len(wire))

RECURSIVE ConcatTexts(_, _)
ConcatTexts(w, e) ==
    IF w = <<>> THEN <<>>
    ELSE (IF Head(w).ev = e THEN Head(w).text ELSE <<>>) \o ConcatTexts(Tail(w), e)

IsPrefix(s, t) == Len(s) <= Len(t) /\ s = SubSeq(t, 1, Len(s))

\* C8: a chat stream that ran to the terminal token wrote, in this order, one
\* role chunk, content chunks whose texts follow the decoded tokens, one final
\* chunk with an empty delta, a finish reason and usage exactly when
\* include_usage is not false, then [DONE]; [DONE] is always the last write.
C8_ChatStreamOrder ==
    /\ \A i \in 1..Len(wire) : wire[i].ev = "done" => i = Len(wire) /\ cpc = "closed"
    /\ (cpc = "closed" /\ kind = "chat" /\ isStream /\ handle = "terminal") =>
          LET n == Len(wire) IN
          /\ n >= 3
          /\ wire[1].ev = "role" /\ wire[1].bytes = SseData(RoleJson)
          /\ \A i \in 2..(n - 2) : wire[i].ev = "content" /\ wire[i].text # <<>>
          /\ IsPrefix(ConcatTexts(wire, "content"), decodedAll)
          /\ wire[n - 1].ev = "final"
          /\ wire[n - 1].text = <<>>
          /\ wire[n - 1].reason \in {"stop", "length", "tool_calls"}
          /\ wire[n - 1].usage = includeUsage
          /\ wire[n - 1].bytes = SseData(FinalJson(finishReason, includeUsage))
          /\ wire[n].ev = "done" /\ wire[n].bytes = DonePayload

\* C8 witness: a finished chat stream with two content chunks and no usage.
C8_Witness ==
    /\ cpc = "closed" /\ kind = "chat" /\ isStream /\ handle = "terminal"
    /\ Len(wire) >= 5 /\ ~includeUsage

\* The payload of an event, from what the event carries.
PayloadOf(e) ==
    IF e.ev = "role" THEN SseData(RoleJson)
    ELSE IF e.ev \in {"content", "echo"} THEN SseData(ContentJson(e.text))
    ELSE IF e.ev = "final" THEN SseData(FinalJson(e.reason, e.usage))
    ELSE DonePayload

ChatAnswered == cpc = "closed" /\ kind = "chat" /\ handle = "terminal"

\* C10 (as claimed): length when the generated tokens reached the limit,
\* otherwise tool_calls when tool calls were parsed, otherwise stop.
C10_LengthBeforeToolCalls ==
    ChatAnswered =>
        finishReason = IF outputTokens >= limit THEN "length"
                       ELSE IF toolCalls # <<>> THEN "tool_calls"
                       ELSE "stop"

\* C10 (amended): tool_calls when tool calls were parsed from the output (the
\* non-streaming handler parses them when the request declares tools, the
\* streaming handler never), otherwise length when the generated tokens
\* reached the limit, otherwise stop; so a response that reached the limit and
\* contains a tool call reports tool_calls.
C10_ToolCallsBeforeLength ==
    ChatAnswered =>
        /\ toolCalls = IF ~isStream /\ hasTools THEN ParseToolCalls(decodedAll)
                       ELSE <<>>
        /\ finishReason = IF toolCalls # <<>> THEN "tool_calls"
                          ELSE IF outputTokens >= limit THEN "length"
                          ELSE "stop"
        /\ wire[Len(wire) - (IF isStream THEN 1 ELSE 0)].reason = finishReason

\* C10 witness: a non-streaming answer that reached the limit with a tool call.
C10_Witness ==
    /\ ChatAnswered /\ ~isStream
    /\ outputTokens >= limit /\ toolCalls # <<>>

\* C11 (as claimed): a non-streaming chat answer without tool calls whose
\* generated tokens number exactly max_tokens (5 in the scenario, any limit the
\* run reaches here) is HTTP 200 with finish_reason = stop and
\* usage.completion_tokens = max_tokens.
C11_ExactLimitIsStop ==
    (ChatAnswered /\ ~isStream /\ outputTokens = limit /\ toolCalls = <<>>) =>
        /\ wire[Len(wire)].reason = "stop"
        /\ wire[Len(wire)].bytes = ChatResponse("stop", limit)

\* C11 (amended): such an answer is HTTP 200 with finish_reason = length,
\* because the generated tokens reached the limit, and
\* usage.completion_tokens = max_tokens; the content is the decoded output.
C11_ExactLimitIsLength ==
    (ChatAnswered /\ ~isStream /\ outputTokens = limit /\ toolCalls = <<>>) =>
        /\ wire[Len(wire)].ev = "response"
        /\ wire[Len(wire)].reason = "length"
        /\ wire[Len(wire)].text = decodedAll
        /\ wire[Len(wire)].bytes = <<50, 48, 48, 123, 109, 108, 48 + limit, 125>>

\* C11 witness: the limit is MaxTokens and as many tokens were generated.
C11_Witness ==
    /\ ChatAnswered /\ ~isStream /\ toolCalls = <<>>
    /\ outputTokens = limit /\ limit = MaxTokens /\ decodedAll # <<>>

\* C12: a chat stream whose output contains a complete tool call and did not
\* reach the token limit ends with a final chunk whose finish_reason is
\* tool_calls, as the non-streaming handler reports for the same output.
C12_StreamReportsToolCalls ==
    (ChatAnswered /\ isStream /\ cpc = "closed"
       /\ ParseToolCalls(decodedAll) # <<>> /\ outputTokens < limit) =>
        /\ wire[Len(wire) - 1].reason = "tool_calls"
        /\ wire[Len(wire) - 1].reason
              = ChatFinishReason(outputTokens, limit, ParseToolCalls(decodedAll))

\* The bytes of the model's vocabulary that belong to a thinking marker or to
\* a tool call: "<", "{", "n", "}".
MarkupBytes == {60, 123, 110, 125}

\* C13: in a chat stream no delta.content carries a thinking marker, a
\* tool-call marker or a tool-call payload.
C13_NoMarkupInContent ==
    (kind = "chat" /\ isStream) =>
        \A i \in 1..Len(wire) :
            wire[i].ev = "content" => Range(wire[i].text) \cap MarkupBytes = {}

\* Well-formed UTF-8: a start byte followed by the continuation bytes it
\* announces, repeated.
RECURSIVE WellFormedUtf8(_)
WellFormedUtf8(s) ==
    \/ s = <<>>
    \/ LET n == ExpectedLen(s[1]) IN
       /\ n > 0 /\ n <= Len(s)
       /\ \A j \in 2..n : IsContinuation(s[j])
       /\ WellFormedUtf8(SubSeq(s, n + 1, Len(s)))

\* C14: in the chat stream and in the completion stream every content or text
\* string of an SSE payload is well-formed UTF-8.
C14_PayloadsWellFormed ==
    EngineStream =>
        \A i \in 1..Len(wire) :
            wire[i].ev = "content" => WellFormedUtf8(wire[i].text)

\* C15: in a chat stream the content emitted so far followed by the carry is
\* the text decoded so far, the carry is the incomplete last character (a
\* start byte with fewer continuation bytes than it announces), and when the
\* stream has ended and the slices made a well-formed string, the content
\* events carry exactly that string in well-formed pieces.
C15_ContentIsTheDecodedText ==
    (kind = "chat" /\ isStream) =>
        /\ handle # "terminal" =>
              ConcatTexts(wire, "content") \o utf8Buffer = decodedAll
        /\ utf8Buffer # <<>> =>
              /\ ExpectedLen(utf8Buffer[1]) > Len(utf8Buffer)
              /\ \A j \in 2..Len(utf8Buffer) : IsContinuation(utf8Buffer[j])
        /\ (handle = "terminal" /\ WellFormedUtf8(decodedAll)) =>
              /\ ConcatTexts(wire, "content") = decodedAll
              /\ \A i \in 1..Len(wire) : WellFormedUtf8(wire[i].text)

\* C15 witness: slices [e4 b8] then [ad]: one content event with the character.
C15_Witness ==
    /\ kind = "chat" /\ isStream /\ cpc = "closed" /\ handle = "terminal"
    /\ outputTokens = 2 /\ decodedAll = <<228, 184, 173>>
    /\ Len(wire) = 4 /\ wire[2].text = <<228, 184, 173>>

\* The stream ended on this step of a chat stream.
ChatStreamEnds ==
    kind = "chat" /\ isStream /\ handle = "live" /\ handle' = "terminal"

\* The content events the step added.
FlushedText == ConcatTexts(SubSeq(wire', Len(wire) + 1, Len(wire')), "content")

\* C16: the step that ends a chat stream emits of the carry only a well-formed
\* prefix, the longest there is, discards the rest and leaves the carry empty.
C16_FlushEmitsValidPrefix ==
    [][ChatStreamEnds =>
          /\ utf8Buffer' = <<>>
          /\ IsPrefix(FlushedText, utf8Buffer)
          /\ WellFormedUtf8(FlushedText)
          /\ \A k \in (Len(FlushedText) + 1)..Len(utf8Buffer) :
                ~WellFormedUtf8(SubSeq(utf8Buffer, 1, k))
          /\ ConcatTexts(wire', "content") \o SubSeq(utf8Buffer,
                Len(FlushedText) + 1, Len(utf8Buffer)) = decodedAll]_vars

\* C16 witness: a stream that ended with two bytes in the carry, discarded.
C16_Witness ==
    /\ kind = "chat" /\ isStream /\ handle = "terminal" /\ utf8Buffer = <<>>
    /\ ConcatTexts(wire, "content") \o <<228, 184>> = decodedAll

\* ------------------------------------------------------------- claims (parser)
\* The content of the feed and finalize results so far, joined in order.
RECURSIVE ContentOf(_)
ContentOf(rs) == IF rs = <<>> THEN <<>> ELSE Head(rs).content \o ContentOf(Tail(rs))

\* The dialects detectFormat can set.
Dialects == {"Qwen3", "DeepSeek", "JsonBlock", "DirectJson"}

\* C17: within one request (every step but reset) the detected format either
\* stays what it is or goes from Unknown to one dialect; once a dialect is
\* detected no later chunk changes it.
C17_FormatDetectedOnce ==
    [][ppc # "end" =>
          /\ impl_.detected_format_ # "Unknown" =>
                impl_'.detected_format_ = impl_.detected_format_
          /\ impl_'.detected_format_ \in Dialects \cup {"Unknown"}]_vars

\* C17 witness: Qwen3 was detected in the first chunk, a later chunk brought
\* the JSON-block marker, and the format is still Qwen3 at the end.
C17_Witness ==
    /\ ppc = "end" /\ Len(fed) >= 2
    /\ Find(fed[1], QWEN3_START, 1) # 0
    /\ Find(fed[Len(fed)], JSON_BLOCK_START, 1) # 0
    /\ impl_.detected_format_ = "Qwen3"

\* The output made of the m-th opening marker, "a", its closing marker, "b".
ThinkingText(m) ==
    THINKING_MARKERS[m][1] \o <<"a">> \o THINKING_MARKERS[m][2] \o <<"b">>

\* The positions of the output after which a chunk ended and another began.
Boundaries == {Len(Concat(SubSeq(fed, 1, i))) : i \in 1..(Len(fed) - 1)}

\* The opening marker of ThinkingText(m) arrived whole in one chunk and its
\* closing marker whole in a later chunk.
OpenThenClose(m) ==
    LET o == Len(THINKING_MARKERS[m][1])
        c == Len(THINKING_MARKERS[m][2])
    IN /\ \E b \in Boundaries : o <= b /\ b <= o + 1
       /\ \A b \in Boundaries : ~(b < o) /\ ~(o + 1 < b /\ b < o + 1 + c)

\* C18: for each of the three marker pairs, an opening marker in one chunk
\* and its closing marker in a later chunk give the text between them as
\* reasoning, without the closing marker, the text after the close as content,
\* and a parser that has left the reasoning state.
C18_CloseInLaterChunk ==
    \A m \in 1..Len(THINKING_MARKERS) :
        (ppc = "end" /\ output = ThinkingText(m) /\ OpenThenClose(m)) =>
            /\ results[Len(results)].reasoning_content = <<"a">>
            /\ ContentOf(results) = <<"b">>
            /\ ~results[Len(results)].thinking_forced_open
            /\ ~impl_.in_reasoning_

\* Name and arguments of tool calls, without the ids.
Calls(tcs) == [i \in 1..Len(tcs) |-> <<tcs[i].name, tcs[i].arguments>>]

RECURSIVE ToolCallsOf(_)
ToolCallsOf(rs) ==
    IF rs = <<>> THEN <<>> ELSE Calls(Head(rs).tool_calls) \o ToolCallsOf(Tail(rs))

\* Reasoning, content and tool calls accumulated over feed results and finalize.
Accumulated(rs) ==
    [reasoning |-> rs[Len(rs)].reasoning_content,
     content |-> ContentOf(rs),
     tool_calls |-> ToolCallsOf(rs)]

\* The results of a new parser fed the text t in one chunk, then finalized.
OneChunk(t) ==
    Only({ <<r.result, finalize(r.impl, 0).result>> : r \in {feed(NewImpl, t, 0)} })

\* C19: whatever the chunk boundaries, the reasoning, content and tool calls
\* accumulated over the feed results and finalize are those of feeding the
\* output in one chunk.
C19_ChunkingIndependent ==
    ppc = "end" => Accumulated(results) = Accumulated(OneChunk(output))

RECURSIVE Concat2(_)
Concat2(lists) == IF lists = <<>> THEN <<>> ELSE Head(lists) \o Concat2(Tail(lists))

\* The content deltas of the diffs, joined in order.
RECURSIVE ContentDeltas(_)
ContentDeltas(ds) ==
    IF ds = <<>> THEN <<>> ELSE Head(ds).content_delta \o ContentDeltas(Tail(ds))

\* C20: after every update the content deltas emitted so far join to the
\* content the parser has returned so far, and no two diffs announce tool
\* calls of different ids under the same index.
C20_DeltasFollowResults ==
    ppc \in {"feed", "end"} =>
        LET ds == Concat2(diffs) IN
        /\ ContentDeltas(ds) = ContentOf(results)
        /\ \A i, j \in 1..Len(ds) :
              (/\ i < j
               /\ ds[i].tool_call_index # npos
               /\ ds[i].tool_call_index = ds[j].tool_call_index
               /\ ds[i].tool_call_delta.id # <<>>
               /\ ds[j].tool_call_delta.id # <<>>)
              => ds[i].tool_call_delta.id = ds[j].tool_call_delta.id

\* C21: parseToolCalls returns every tool call of the complete output, in
\* order: the calls the parser extracts from that output fed in one chunk;
\* for the output with one complete <tool_call> block, exactly one call.
C21_ParseToolCallsReturnsAll ==
    ppc = "parsed" =>
        /\ Calls(results[1].tool_calls) = ToolCallsOf(OneChunk(output))
        /\ (Find(output, QWEN3_START, 1) = 2) => Len(results[1].tool_calls) = 1

\* C22: after every feed the current message holds the content and the tool
\* calls returned so far and the reasoning, and the diff from the empty
\* message reports all of that content and every one of those tool calls.
C22_CurrentMessageAccumulates ==
    (ppc \in {"update", "feed", "end"} /\ results # <<>>) =>
        LET msg == getCurrentMessage(impl_)
            ds == computeDiffs(EmptyMsg, msg)
        IN /\ msg.reasoning_content = results[Len(results)].reasoning_content
           /\ msg.content = ContentOf(results)
           /\ Calls(msg.tool_calls) = ToolCallsOf(results)
           /\ ContentDeltas(ds) = ContentOf(results)
           /\ Cardinality({i \in 1..Len(ds) : ds[i].tool_call_index # npos})
                 = Len(ToolCallsOf(results))

\* C23: the tool calls returned for one output, over all feed results and
\* finalize, carry pairwise different ids.
C23_IdsUnique ==
    ppc = "end" =>
        \A a, b \in 1..Len(results) :
            \A i \in 1..Len(results[a].tool_calls) :
                \A j \in 1..Len(results[b].tool_calls) :
                    <<a, i>> # <<b, j>> =>
                        results[a].tool_calls[i].id # results[b].tool_calls[j].id

\* Part of C23 that holds: ids the parser generated are pairwise different.
C23_GeneratedIdsUnique ==
    ppc = "end" =>
        \A a, b \in 1..Len(results) :
            \A i \in 1..Len(results[a].tool_calls) :
                \A j \in 1..Len(results[b].tool_calls) :
                    (/\ <<a, i>> # <<b, j>>
                     /\ results[a].tool_calls[i].id[1] = "call_"
                     /\ results[b].tool_calls[j].id[1] = "call_") =>
                        results[a].tool_calls[i].id # results[b].tool_calls[j].id

\* ------------------------------------------------------------ claims (request)
\* Deal has handled the pushed request up to its answer or the launch.
Dealt == cpc \in {"closed", "launched"}

\* The pushed request carries the header Authorization: Bearer <key> with the
\* configured key.
BearerKey ==
    \E h \in request.headers :
        /\ h[1] = "Authorization"
        /\ h[2] \in {<<"Bearer ">> \o apiKey, <<" ", "Bearer ">> \o apiKey}

\* C24: with a key configured, a request without the exact Bearer key is
\* answered 401 by the key check, with no endpoint handler run and no engine
\* handle, on every route but GET /health, /v1/health and /version.
C24_UnauthorizedGets401 ==
    (/\ Dealt /\ apiKey # <<>> /\ ~BearerKey
     /\ ~(request.method = "GET"
          /\ request.route \in {"/health", "/v1/health", "/version"}))
    => (status = 401 /\ kind = "unauthorized" /\ handle = "none")

\* C24 as the code has it: GET /version/ is answered without the key check
\* as well; every other request without the exact Bearer key gets the 401.
C24_UnauthorizedGets401ButVersionSlash ==
    (/\ Dealt /\ apiKey # <<>> /\ ~BearerKey
     /\ ~(request.method = "GET"
          /\ request.route \in {"/health", "/v1/health", "/version", "/version/"}))
    => (status = 401 /\ kind = "unauthorized" /\ handle = "none")

\* C24 witness: a chat request with a wrong key was answered 401.
C24_Witness ==
    /\ Dealt /\ apiKey # <<>> /\ status = 401
    /\ request.route = "/v1/models"
    /\ <<"Authorization", <<" ", "Bearer ", "x">>>> \in request.headers

\* C25: a chat or completion request answered with 400 or 404 has no engine
\* handle: LaunchResponseTokens was not called for it.
C25_RejectedBeforeLaunch ==
    (kind \in {"chat", "completions"} /\ status \in {400, 404}) => handle = "none"

\* C25 witness: a chat request for an unknown model was answered 404.
C25_Witness ==
    kind = "chat" /\ status = 404 /\ Config(request.body).model = "z"

\* C26: a pushed request has its blank line among the bytes received and,
\* with a Content-Length header before it, at least that many bytes after it.
C26_OnlyCompleteRequestsPushed ==
    cpc = "queued" =>
        \E i \in 1..size :
            /\ sent[i] = <<"B">>
            /\ \A j \in 1..(i - 1) :
                  (sent[j][1] = "H" /\ sent[j][2] = "Content-Length")
                  => size - i >= Atoi(sent[j][3])

\* C27: when the buffer is full of a request that is longer than the buffer,
\* the request is not pushed, no handler runs for it, and nothing is written
\* past the end of the buffer.
C27_OversizedRejected ==
    (size = BuffCap /\ Len(sent) > BuffCap) =>
        (cpc \in {"read", "rejected"} /\ ~oob /\ request.method = "")

\* C28: /tokenize of a text s, the request received whole, answers 200 with
\* token ids, and /detokenize of those ids answers with content s; s ranges
\* over the texts of the model, the empty text among them.
C28_TokenizeRoundTrip ==
    (kind = "tokenize" /\ cpc = "closed" /\ size = Len(sent)) =>
        /\ status = 200
        /\ Detokenize([NullJson EXCEPT !.tokensIsArray = TRUE,
                                       !.tokens = answer]).content
              = Config(request.body).content

\* C29: the queue and the two counters change only in a step of a thread
\* that has the mutex (the dispatcher holding it, or Push or a worker taking
\* the free mutex for its write); active_count is the number of admitted
\* requests whose worker has not decremented yet, and total_processed is the
\* number of requests admitted and never decreases.
C29_CountersUnderMutex ==
    /\ [](/\ activateQueryNumber
               = Cardinality({r \in Range(admitted) : decs[r] = 0})
          /\ totalQueryNumber = Len(admitted))
    /\ [][/\ totalQueryNumber' >= totalQueryNumber
          /\ (q' # q \/ activateQueryNumber' # activateQueryNumber
                \/ totalQueryNumber' # totalQueryNumber)
             => IF admitted' # admitted THEN locker = "dispatcher"
                ELSE locker = "free"]_vars

\* C29 witness: the pool is full, one worker has decremented, one waits.
C29_Witness ==
    /\ activateQueryNumber = MaxActive
    /\ \E r \in Requests : decs[r] = 1
    /\ q # <<>>

\* C30: the accept loop reads a connection only while the queue holds at
\* most max_active requests.
C30_NoReadWhileQueueFull ==
    [][(apc = "accept" /\ (apc' = "backpressure" \/ conn' # conn))
          => Len(q) <= MaxActive]_vars

\* C30 as the code has it: the wait sits between the read and the Push; a
\* request is appended only to a queue of at most max_active requests, and
\* while the loop waits no further connection is read.
C30_NoPushWhileQueueFull ==
    [][/\ Len(q') > Len(q) => Len(q) <= MaxActive
       /\ (apc = "backpressure" /\ Len(q) > MaxActive)
             => (apc' = "backpressure" /\ conn' = conn)]_vars

\* C30 witness: a request has been read and the loop waits on a full queue.
C30_Witness ==
    apc = "backpressure" /\ Len(q) > MaxActive

\* Output texts of the claims below.
TextThenThinking ==
    <<"p">> \o THINKING_MARKERS[1][1] \o <<"a">> \o THINKING_MARKERS[1][2] \o <<"b">>
UnclosedBlock == <<"a">> \o QWEN3_START \o <<"{", NameMember>>

\* C31: text followed by a thinking block, the text and the opening marker in
\* the first chunk: the text before the marker is content of the first feed
\* result, the text between the markers is the reasoning and no content, and
\* over the whole output content and reasoning hold all the text: "p" and "b"
\* are the content, "a" the reasoning.
C31_TextBeforeThinkingIsContent ==
    (/\ ppc = "end" /\ output = TextThenThinking
     /\ Len(fed[1]) >= 1 + Len(THINKING_MARKERS[1][1])) =>
        /\ IsPrefix(<<"p">>, results[1].content)
        /\ results[Len(results)].reasoning_content = <<"a">>
        /\ ContentOf(results) = <<"p", "b">>

\* C32: every tool call returned is complete. For the output whose block is
\* never closed no result carries a tool call; once the start marker has been
\* fed, the parser is parsing a tool call, its buffer is the text from the
\* start marker on and the content returned is the text before the marker;
\* after finalize the content returned is the whole output and the buffer is
\* empty.
C32_OnlyClosedBlocksYieldCalls ==
    /\ \A r \in 1..Len(results) : \A i \in 1..Len(results[r].tool_calls) :
          results[r].tool_calls[i].is_complete
    /\ (output = UnclosedBlock /\ ppc # "parsed") =>
          /\ ToolCallsOf(results) = <<>>
          /\ (/\ results # <<>> /\ ~results[Len(results)].parsing_complete
              /\ Find(Concat(fed), QWEN3_START, 1) # 0) =>
                /\ impl_.in_tool_call_
                /\ impl_.buffer_ = From(Concat(fed), 2)
                /\ ContentOf(results) = <<"a">>
          /\ (results # <<>> /\ results[Len(results)].parsing_complete) =>
                /\ ContentOf(results) = output
                /\ impl_.buffer_ = <<>>

\* C33: a direct JSON call whose arguments string holds a closing brace, name
\* and arguments member in the first chunk: the brace inside the string does
\* not end the object, and the call is extracted with that string as its
\* arguments.
C33_BracesInStringsIgnored ==
    (ppc = "end" /\ output = BraceJson \o <<"y">> /\ Len(fed[1]) >= 3) =>
        ToolCallsOf(results) = << <<"f", <<"}">>>> >>

\* C36: a request whose header is spelled authorization and carries the
\* configured key is not answered 401, as with the canonical spelling; a
\* request with the header content-length: 2, its blank line received and
\* the socket open, is pushed only when its whole body has been received, as
\* with the canonical spelling.
C36_HeaderLookupIgnoresCase ==
    /\ (/\ Dealt /\ apiKey = <<"k">>
        /\ <<"authorization", <<" ", "Bearer ", "k">>>> \in request.headers)
       => status # 401
    /\ (/\ cpc = "queued" /\ closes = 0
        /\ \E j \in 1..size : sent[j] = <<"B">>
        /\ \E j \in 1..Len(sent) : sent[j] = <<"H", "content-length", <<" ", "2">>>>)
       => size = Len(sent)

\* C38: the queue never holds more than max_active + 1 waiting requests, and
\* the queue grows only in the Push of the accept loop.
C38_QueueLengthBounded ==
    /\ [](Len(q) <= MaxActive + 1)
    /\ [][Len(q') > Len(q) => (apc = "push" /\ apc' = "notify")]_vars

\* C38 witness: max_active + 1 requests wait in the queue.
C38_Witness == Len(q) = MaxActive + 1 /\ apc = "accept"

\* The read buffer of a run in which nothing was left in it: the bytes read
\* from this connection, then zeros.
CleanBuffer ==
    [i \in 1..BuffCap |-> IF i <= size THEN sent[i] ELSE <<>>]

\* C40: whatever earlier connections left in the buffer, the request is
\* pushed after the read at which the run with a zeroed buffer finds it
\* complete, and the request pushed is the one that run pushes.
C40_PushIndependentOfStaleBytes ==
    (cpc = "queued" /\ ~oob) =>
        /\ closes = 0 => IsValid(CleanBuffer, size)
        /\ request = HttpRequestInit(CleanBuffer)

\* The results a newly constructed parser returns for the feed of each chunk
\* and the finalize after the last.
RECURSIVE FeedAll(_, _)
FeedAll(p, chunks) ==
    IF chunks = <<>> THEN <<finalize(p, 0).result>>
    ELSE Only({ <<r.result>> \o FeedAll(r.impl, Tail(chunks))
                : r \in {feed(p, Head(chunks), 0)} })

\* Results with the random characters of the generated ids left out.
NoRandom(rs) ==
    [k \in 1..Len(rs) |->
        [rs[k] EXCEPT !.tool_calls =
            [i \in 1..Len(@) |->
                [@[i] EXCEPT !.id = IF @[1] = "call_" THEN <<@[1], @[3]>> ELSE @]]]]

\* C35: reset() leaves the fields of a newly constructed parser, and the feed
\* and finalize calls made after a reset return what a new parser returns
\* for the same chunks, up to the random characters of generated ids.
C35_ResetIsNew ==
    /\ []((resets >= 1 /\ ppc = "end") =>
             NoRandom(results) = NoRandom(FeedAll(NewImpl, fed)))
    /\ [][resets' > resets => impl_' = NewImpl]_vars

\* C35 witness: after a reset an output was parsed to its end, a format was
\* detected and a tool call with the generated index 0 was returned.
C35_Witness ==
    /\ resets >= 1 /\ ppc = "end" /\ impl_.detected_format_ = "DeepSeek"
    /\ \E k \in 1..Len(results) :
          /\ results[k].tool_calls # <<>>
          /\ results[k].tool_calls[1].id[1] = "call_"
          /\ results[k].tool_calls[1].id[3] = 0

\* ---------------------------------------------------------------- claims (diff)
\* The message the i-th update was compared with.
PrevMsg(i) == IF i = 1 THEN EmptyMsg ELSE msgs[i - 1]

\* id, name and arguments of the tool calls (what ToolCall::operator== reads).
Fields(tcs) == [j \in 1..Len(tcs) |-> <<tcs[j].id, tcs[j].name, tcs[j].arguments>>]

\* new extends prev: reasoning and content are extensions, the tool calls of
\* prev are there unchanged, the last of them with arguments that extend.
Extends(prev, new) ==
    LET n == Len(prev.tool_calls) IN
    /\ IsPrefix(prev.reasoning_content, new.reasoning_content)
    /\ IsPrefix(prev.content, new.content)
    /\ n <= Len(new.tool_calls)
    /\ SubSeq(Fields(prev.tool_calls), 1, n - 1) = SubSeq(Fields(new.tool_calls), 1, n - 1)
    /\ n > 0 => /\ prev.tool_calls[n].id = new.tool_calls[n].id
                /\ prev.tool_calls[n].name = new.tool_calls[n].name
                /\ IsPrefix(prev.tool_calls[n].arguments, new.tool_calls[n].arguments)

\* A delta applied to a message: text deltas are appended; a tool-call delta
\* with the index of a call extends its arguments and replaces the id and
\* name it names, one with the next index is appended.
ApplyDiff(msg, d) ==
    LET m1 == [msg EXCEPT !.reasoning_content = @ \o d.reasoning_content_delta,
                          !.content = @ \o d.content_delta]
        k == d.tool_call_index + 1
        tc == d.tool_call_delta
    IN IF d.tool_call_index = npos THEN m1
       ELSE IF k <= Len(msg.tool_calls)
       THEN [m1 EXCEPT !.tool_calls[k] =
                [@ EXCEPT !.arguments = @ \o tc.arguments,
                          !.id = IF tc.id # <<>> THEN tc.id ELSE @,
                          !.name = IF tc.name # "" THEN tc.name ELSE @]]
       ELSE [m1 EXCEPT !.tool_calls = Append(@, tc)]

RECURSIVE ApplyAll(_, _)
ApplyAll(msg, ds) ==
    IF ds = <<>> THEN msg ELSE ApplyAll(ApplyDiff(msg, Head(ds)), Tail(ds))

\* The place of a delta in the order: reasoning, content, tool calls by index.
OrderKey(d) ==
    IF d.tool_call_index # npos THEN 3 + d.tool_call_index
    ELSE IF d.reasoning_content_delta # <<>> THEN 1 ELSE 2

\* C34: for every update whose message extends the previous one, the deltas
\* applied in order to the previous message give the new one, and they come
\* in the order reasoning, content, last previous tool call, new tool calls
\* by index; a text that does not extend the previous text has no delta.
C34_DeltasReconstruct ==
    \A i \in 1..Len(msgs) :
        LET prev == PrevMsg(i)
            new == msgs[i]
            ds == diffs[i]
            n == Len(prev.tool_calls)
            rebuilt == ApplyAll(prev, ds)
        IN /\ Extends(prev, new) =>
                /\ rebuilt.reasoning_content = new.reasoning_content
                /\ rebuilt.content = new.content
                /\ Fields(rebuilt.tool_calls) = Fields(new.tool_calls)
                /\ \A a, b \in 1..Len(ds) : a < b => OrderKey(ds[a]) < OrderKey(ds[b])
           /\ ~IsPrefix(prev.reasoning_content, new.reasoning_content) =>
                \A a \in 1..Len(ds) : ds[a].reasoning_content_delta = <<>>
           /\ ~IsPrefix(prev.content, new.content) =>
                \A a \in 1..Len(ds) : ds[a].content_delta = <<>>
           /\ (/\ 0 < n /\ n <= Len(new.tool_calls)
               /\ ~IsPrefix(prev.tool_calls[n].arguments, new.tool_calls[n].arguments)) =>
                \A a \in 1..Len(ds) :
                    ds[a].tool_call_index = n - 1 => ds[a].tool_call_delta.arguments = <<>>

\* C34 witness: the second message extends the first in reasoning, content,
\* the arguments of its tool call and by a new tool call, and the update
\* returned four deltas.
C34_Witness ==
    /\ Len(msgs) = 2 /\ Extends(msgs[1], msgs[2])
    /\ msgs[1].tool_calls # <<>>
    /\ Len(diffs[2]) = 4

\* The length of the unfinished character a text ends with, 0 when it ends
\* with none: a start byte and fewer continuation bytes than it announces.
UnfinishedTail(s) ==
    LET ks == {k \in 1..3 :
                 /\ k <= Len(s)
                 /\ ExpectedLen(s[Len(s) - k + 1]) > k
                 /\ \A j \in (Len(s) - k + 2)..Len(s) : IsContinuation(s[j])}
    IN IF ks = {} THEN 0 ELSE CHOOSE k \in ks : TRUE

\* C39: in a chat stream the carry is empty or one to three bytes, a start
\* byte of a multi-byte character and fewer continuation bytes than it
\* announces; the step that ends the stream emits no content event; and the
\* content of the ended stream is the decoded text without its unfinished
\* last character, of at most three bytes.
C39_CarryIsUnfinishedCharacter ==
    /\ []((kind = "chat" /\ isStream) =>
            /\ Len(utf8Buffer) <= 3
            /\ utf8Buffer # <<>> =>
                  /\ ExpectedLen(utf8Buffer[1]) \in {2, 3, 4}
                  /\ Len(utf8Buffer) < ExpectedLen(utf8Buffer[1])
                  /\ \A j \in 2..Len(utf8Buffer) : IsContinuation(utf8Buffer[j])
            /\ handle = "terminal" =>
                  ConcatTexts(wire, "content") =
                      SubSeq(decodedAll, 1, Len(decodedAll) - UnfinishedTail(decodedAll)))
    /\ [][ChatStreamEnds => FlushedText = <<>>]_vars

\* C39 witness: a chat stream ended with three bytes of a four-byte character
\* in the carry; they were not sent.
C39_Witness ==
    /\ kind = "chat" /\ isStream /\ handle = "terminal"
    /\ Len(decodedAll) >= 4
    /\ SubSeq(decodedAll, Len(decodedAll) - 2, Len(decodedAll)) = <<240, 159, 152>>
    /\ Len(ConcatTexts(wire, "content")) = Len(decodedAll) - 3

\* ---------------------------------------------------------------- claims (PEG)
\* The repetition of the root has made no more iterations than the input has
\* characters behind the position it started at.
RepetitionBounded ==
    pegpc = "repeat" => frame.count <= Len(input) - pos

\* A repetition that parse() reports as matched has counted between
\* min_count and max_count matches of its rule.
RepeatCountInRange ==
    (pegpc = "done" /\ call = "parse" /\ root_.type = "repeat"
        /\ peg_results[1].success) =>
        (root_.min_count <= frame.count /\ frame.count <= root_.max_count)

\* The matches parseAll has collected each consume a character, lie in the
\* input before pos, and follow one another without overlap.
ParseAllMatchesOrdered ==
    call = "parseAll" =>
        /\ pos <= Len(input)
        /\ \A i \in 1..Len(peg_results) :
              /\ peg_results[i].success
              /\ peg_results[i].start_pos < peg_results[i].end_pos
              /\ peg_results[i].end_pos <= pos
        /\ \A i \in 1..Len(peg_results) : \A j \in 1..Len(peg_results) :
              i < j => peg_results[i].end_pos <= peg_results[j].start_pos

\* C37: zeroOrMore, oneOrMore, repeat and parseAll terminate for every rule
\* and input, a repetition within as many iterations as the input has
\* characters to consume; parseAll's matches do not overlap, are in increasing
\* start position and each consume at least one character; repeat succeeds
\* only with a count between min_count and max_count.
C37_RepetitionAndParseAllTerminate ==
    /\ RepetitionBounded
    /\ RepeatCountInRange
    /\ ParseAllMatchesOrdered

====
